---- MODULE Spec2Model ----
(***************************************************************************)
(* A model of the MSK topic resource (TR): the CloudFormation custom       *)
(* resource handler, its Create / Update / Delete commands, the user       *)
(* manager (CreateUser / DeleteUser / ACLs), the key resolver and the      *)
(* user / config diff, run step by step against in-memory models of the    *)
(* Kafka cluster, MSK, Secrets Manager and KMS.                            *)
(*                                                                         *)
(* One action is one backend call (or one injected delay) together with    *)
(* the handler code that follows it up to the next call.  Every backend    *)
(* call may fail; the error values carry what the code classifies on (the  *)
(* HTTP status of an AWS error, the retriable flag of a Kafka error).      *)
(***************************************************************************)
EXTENDS Integers, Sequences, FiniteSets, TLC

\* ------------------------------------------------------------------ bounds

\* Invocations of the handler in one behaviour.
MaxInvocations == 3

\* Backend calls that fail in one behaviour.
MaxFaults == 2

\* ------------------------------------------------------- program constants

PermissionRead == "READ"
PermissionWrite == "WRITE"
DeletionPolicyDelete == "DELETE"
DeletionPolicyRetain == "RETAIN"
TagKmsKey == "TR-KMS-KEY"

\* isRetriable: a response status from here on is retriable.
RetriableStatus == 500

RequestCreate == "Create"
RequestUpdate == "Update"
RequestDelete == "Delete"
RequestTypes == {RequestCreate, RequestUpdate, RequestDelete}

\* ------------------------------------------------------------ desired state

\* types.User
User(n, a, p) == [Username |-> n, Arn |-> a, Permissions |-> p]

\* types.TopicInfo
TopicInfo(n, p, rf, c, cfg, us, dp) ==
  [Name |-> n, Partitions |-> p, ReplicationFactor |-> rf, ClusterArn |-> c,
   Config |-> cfg, Users |-> us, DeletionPolicy |-> dp]

NoConfig == [k \in {} |-> ""]
Cfg(v) == [k \in {"retention.ms"} |-> v]

\* The range of a sequence.
Range(s) == {s[i] : i \in 1..Len(s)}

\* ---------------------------------------------------------- property maps

\* A property map as the event carries it: Keys holds the keys the map has,
\* and each key of the schema has a field with its value (a default when the
\* key is not in Keys).  Partitions and ReplicationFactor are strings, kept
\* as the sequence of their characters.  A user of the map is such a map too.
Properties(keys, n, p, rf, c, cfg, us, dp) ==
  [Keys |-> keys, ServiceToken |-> "token", Name |-> n, Partitions |-> p,
   ReplicationFactor |-> rf, ClusterArn |-> c, Config |-> cfg, Users |-> us,
   DeletionPolicy |-> dp]
UserProperties(keys, n, a, p) ==
  [Keys |-> keys, Username |-> n, Arn |-> a, Permissions |-> p]

\* topicInfoSchema: the required keys and the properties of the root and of
\* User, the pattern of the two numbers and the two enums.
RequiredKeys == {"ServiceToken", "Name", "Partitions", "ReplicationFactor", "ClusterArn"}
SchemaKeys == RequiredKeys \cup {"Config", "Users", "DeletionPolicy"}
UserRequiredKeys == {"Username", "Permissions"}
UserSchemaKeys == UserRequiredKeys \cup {"Arn"}
Digits == {"0", "1", "2", "3", "4", "5", "6", "7", "8", "9"}
MatchesPattern(str) == \A i \in 1..Len(str) : str[i] \in Digits
PermissionEnum == {PermissionRead, PermissionWrite}
DeletionPolicyEnum == {DeletionPolicyDelete, DeletionPolicyRetain}

\* One error of the validation result: the property it is about (user and
\* perm are the indexes inside Users, 0 outside), its kind and the key named.
SchemaError(prop, user, perm, kind, key) ==
  [prop |-> prop, user |-> user, perm |-> perm, kind |-> kind, key |-> key]

\* gojsonschema.Validate against topicInfoSchema: result.Errors(), as a set.
UserErrors(u, i) ==
  {SchemaError("Users", i, 0, "required", k) : k \in UserRequiredKeys \ u.Keys}
    \cup {SchemaError("Users", i, 0, "additional", k) : k \in u.Keys \ UserSchemaKeys}
    \cup (IF "Permissions" \in u.Keys
            THEN {SchemaError("Users", i, j, "enum", "Permissions") :
                    j \in {x \in 1..Len(u.Permissions) : u.Permissions[x] \notin PermissionEnum}}
            ELSE {})

Validate(props) ==
  {SchemaError("(root)", 0, 0, "required", k) : k \in RequiredKeys \ props.Keys}
    \cup {SchemaError("(root)", 0, 0, "additional", k) : k \in props.Keys \ SchemaKeys}
    \cup {SchemaError(k, 0, 0, "pattern", k) :
            k \in {x \in {"Partitions", "ReplicationFactor"} \cap props.Keys :
                     ~MatchesPattern(props[x])}}
    \cup (IF "DeletionPolicy" \in props.Keys /\ props.DeletionPolicy \notin DeletionPolicyEnum
            THEN {SchemaError("DeletionPolicy", 0, 0, "enum", "DeletionPolicy")} ELSE {})
    \cup (IF "Users" \in props.Keys
            THEN UNION {UserErrors(props.Users[i], i) : i \in 1..Len(props.Users)}
            ELSE {})

\* json.Unmarshal of a `json:",string"` int: the decimal value of the quoted
\* digits; the empty string is an error.  (The numbers of the model stay far
\* below the range of int.)
DigitValue(c) ==
  CASE c = "0" -> 0 [] c = "1" -> 1 [] c = "2" -> 2 [] c = "3" -> 3 [] c = "4" -> 4
    [] c = "5" -> 5 [] c = "6" -> 6 [] c = "7" -> 7 [] c = "8" -> 8 [] c = "9" -> 9
ParseInt(str) ==
  LET F[i \in 0..Len(str)] == IF i = 0 THEN 0 ELSE 10 * F[i - 1] + DigitValue(str[i])
  IN F[Len(str)]
UnmarshalErrors(props) ==
  {SchemaError(k, 0, 0, "unmarshal", k) :
     k \in {x \in {"Partitions", "ReplicationFactor"} \cap props.Keys : Len(props[x]) = 0}}

\* A variant of Unmarshal into a TopicInfo that starts with no DeletionPolicy.
UnmarshalNoDefault(props) ==
  [Name |-> props.Name, Partitions |-> 0, ReplicationFactor |-> 0,
   ClusterArn |-> props.ClusterArn, Config |-> NoConfig, Users |-> <<>>,
   DeletionPolicy |-> IF "DeletionPolicy" \in props.Keys THEN props.DeletionPolicy ELSE ""]

\* json.Unmarshal into a TopicInfo that starts with DeletionPolicy RETAIN: a
\* key the map lacks leaves the field as it was.
UnmarshalUser(u) ==
  User(IF "Username" \in u.Keys THEN u.Username ELSE "",
       IF "Arn" \in u.Keys THEN u.Arn ELSE "",
       IF "Permissions" \in u.Keys THEN u.Permissions ELSE <<>>)
Unmarshal(props) ==
  LET num(k) == IF k \in props.Keys /\ Len(props[k]) > 0 THEN ParseInt(props[k]) ELSE 0
  IN TopicInfo(IF "Name" \in props.Keys THEN props.Name ELSE "",
               num("Partitions"), num("ReplicationFactor"),
               IF "ClusterArn" \in props.Keys THEN props.ClusterArn ELSE "",
               IF "Config" \in props.Keys THEN props.Config ELSE NoConfig,
               IF "Users" \in props.Keys
                 THEN [i \in 1..Len(props.Users) |-> UnmarshalUser(props.Users[i])]
                 ELSE <<>>,
               IF "DeletionPolicy" \in props.Keys THEN props.DeletionPolicy
               ELSE DeletionPolicyRetain)

\* The nil *TopicInfo.
NilTopicInfo == TopicInfo("", 0, 0, "", NoConfig, <<>>, "")

\* A variant of NewTopicInfo whose error holds one of the violations only.
NewTopicInfoFirstError(props) ==
  LET errors == Validate(props)
  IN IF errors = {}
       THEN [nil |-> FALSE, ti |-> Unmarshal(props), err |-> UnmarshalErrors(props)]
       ELSE [nil |-> TRUE, ti |-> NilTopicInfo, err |-> {CHOOSE e \in errors : TRUE}]

\* types.NewTopicInfo: the TopicInfo (nil: none is returned) and the error,
\* kept as the set of the messages it joins; the empty set is the nil error.
NewTopicInfo(props) ==
  LET errors == Validate(props)
  IN IF errors = {}
       THEN [nil |-> FALSE, ti |-> Unmarshal(props), err |-> UnmarshalErrors(props)]
       ELSE [nil |-> TRUE, ti |-> NilTopicInfo, err |-> errors]

\* ------------------------------------------------------------------ naming

\* shortStackID: the first 8 characters of the base32 SHA-256 of the stack id.
\* The digest is modelled by a table over the stack ids of the model.
StackIDs == {"stack-1"}
shortStackID(stackID) ==
  CASE stackID = "stack-1" -> "AAAAAAA1"
    [] stackID = "stack-2" -> "BBBBBBB2"

\* A variant of canonicalTopicName that leaves the name out.
canonicalTopicNameNoName(name, ssid) == "topic-" \o ssid

\* canonicalTopicName: Sprintf("%s-%s", name, shortStackID).
canonicalTopicName(name, ssid) == name \o "-" \o ssid

\* canonicalUsername: Sprintf("AmazonMSK_%s_%s", username, shortStackID).
canonicalUsername(username, ssid) == "AmazonMSK_" \o username \o "_" \o ssid

\* ------------------------------------------------------------- ACL mapping

\* userManager.userPermissionToACL: the ACL builders of a permission list; the
\* topic builder always, the group builder when groupOps is not empty.
SeqOps(perms, forGroup) ==
  LET F[i \in 0..Len(perms)] ==
        IF i = 0 THEN <<>>
        ELSE F[i - 1] \o
             (IF perms[i] = PermissionRead
                THEN (IF forGroup THEN <<"READ", "DESCRIBE">> ELSE <<"READ">>)
                ELSE <<>>) \o
             (IF perms[i] = PermissionWrite /\ ~forGroup THEN <<"WRITE">> ELSE <<>>)
  IN F[Len(perms)]

ACLBuilder(rtype, rname, ops, username) ==
  [rtype |-> rtype, rname |-> rname, pattern |-> "LITERAL", ops |-> ops,
   principal |-> <<"User", username>>, host |-> "*"]

\* A variant of userPermissionToACL without the consumer group ACLs.
userPermissionToACLNoGroup(topic, username, permissions) ==
  <<ACLBuilder("TOPIC", topic, SeqOps(permissions, FALSE), username)>>

userPermissionToACL(topic, username, permissions) ==
  LET topicOps == SeqOps(permissions, FALSE)
      groupOps == SeqOps(permissions, TRUE)
  IN <<ACLBuilder("TOPIC", topic, topicOps, username)>> \o
     (IF Len(groupOps) > 0
        THEN <<ACLBuilder("GROUP", "*", groupOps, username)>>
        ELSE <<>>)

\* CreateACLs and DeleteACLs of the user manager: the builders they hand to
\* createACLs and deleteACLs.
CreateACLsBuilders(topic, username, stackID, permissions) ==
  userPermissionToACL(topic, canonicalUsername(username, stackID), permissions)
DeleteACLsBuilders(topic, username, stackID, permissions) ==
  userPermissionToACL(topic, canonicalUsername(username, stackID), permissions)

\* The ACL bindings a builder stands for, on the cluster the client talks to.
Bindings(cluster, b) ==
  {[cluster |-> cluster, rtype |-> b.rtype, rname |-> b.rname, pattern |-> b.pattern,
    principal |-> b.principal, host |-> b.host, op |-> o] : o \in Range(b.ops)}

\* All bindings of a permission list.
ACLsOf(cluster, topic, username, permissions) ==
  LET bs == userPermissionToACL(topic, username, permissions)
  IN UNION {Bindings(cluster, bs[i]) : i \in 1..Len(bs)}

\* ------------------------------------------------------------------- diffs

\* The index diffUsers builds over a user list: the last user of each name.
UserIndex(users) ==
  [n \in {users[i].Username : i \in 1..Len(users)} |->
     users[CHOOSE i \in 1..Len(users) :
             /\ users[i].Username = n
             /\ \A j \in (i + 1)..Len(users) : users[j].Username # n]]

\* A variant of PermsNotIn that keeps every element of ps.
PermsNotInAll(ps, qs) == ps

\* The elements of ps that do not occur in qs, in the order of ps.
PermsNotIn(ps, qs) ==
  LET F[i \in 0..Len(ps)] ==
        IF i = 0 THEN <<>>
        ELSE IF ps[i] \in Range(qs) THEN F[i - 1] ELSE Append(F[i - 1], ps[i])
  IN F[Len(ps)]

\* newUserDiff: the four containers, empty.
newUserDiff ==
  [AddedUsers |-> <<>>, AddedPermissions |-> [n \in {} |-> <<>>],
   DeletedPermissions |-> [n \in {} |-> <<>>], DeletedUsers |-> <<>>]

\* m with m[k] = v.
MapPut(m, k, v) == [x \in DOMAIN m \cup {k} |-> IF x = k THEN v ELSE m[x]]

\* A variant of diffUsers that does not replace a user whose Arn changed.
diffUsersKeepArn(old, new) ==
  LET oldIndex == UserIndex(old.Users)
      newIndex == UserIndex(new.Users)
      \* the loop over old.Users
      F[i \in 0..Len(old.Users)] ==
        IF i = 0 THEN newUserDiff
        ELSE
          LET d == F[i - 1]
              o == old.Users[i]
          IN IF o.Username \in DOMAIN newIndex
               THEN
                 LET n == newIndex[o.Username]
                     deletedPermissions == PermsNotIn(o.Permissions, n.Permissions)
                     addedPermissions == PermsNotIn(n.Permissions, o.Permissions)
                     d1 == IF Len(deletedPermissions) > 0
                             THEN [d EXCEPT !.DeletedPermissions =
                                     MapPut(@, o.Username, deletedPermissions)]
                             ELSE d
                     d2 == IF Len(addedPermissions) > 0
                             THEN [d1 EXCEPT !.AddedPermissions =
                                     MapPut(@, o.Username, addedPermissions)]
                             ELSE d1
                 IN IF FALSE
                      THEN [d2 EXCEPT !.AddedUsers = Append(@, n),
                                      !.DeletedUsers = Append(@, o)]
                      ELSE d2
               ELSE [d EXCEPT !.DeletedUsers = Append(@, o)]
      afterOld == F[Len(old.Users)]
      \* the loop over new.Users
      G[i \in 0..Len(new.Users)] ==
        IF i = 0 THEN afterOld.AddedUsers
        ELSE IF new.Users[i].Username \notin DOMAIN oldIndex
               THEN Append(G[i - 1], new.Users[i])
               ELSE G[i - 1]
  IN [afterOld EXCEPT !.AddedUsers = G[Len(new.Users)]]

\* A variant of diffUsers that puts a deleted user in front of DeletedUsers.
diffUsersPrepend(old, new) ==
  LET oldIndex == UserIndex(old.Users)
      newIndex == UserIndex(new.Users)
      \* the loop over old.Users
      F[i \in 0..Len(old.Users)] ==
        IF i = 0 THEN newUserDiff
        ELSE
          LET d == F[i - 1]
              o == old.Users[i]
          IN IF o.Username \in DOMAIN newIndex
               THEN
                 LET n == newIndex[o.Username]
                     deletedPermissions == PermsNotIn(o.Permissions, n.Permissions)
                     addedPermissions == PermsNotIn(n.Permissions, o.Permissions)
                     d1 == IF Len(deletedPermissions) > 0
                             THEN [d EXCEPT !.DeletedPermissions =
                                     MapPut(@, o.Username, deletedPermissions)]
                             ELSE d
                     d2 == IF Len(addedPermissions) > 0
                             THEN [d1 EXCEPT !.AddedPermissions =
                                     MapPut(@, o.Username, addedPermissions)]
                             ELSE d1
                 IN IF o.Arn # n.Arn
                      THEN [d2 EXCEPT !.AddedUsers = Append(@, n),
                                      !.DeletedUsers = Append(@, o)]
                      ELSE d2
               ELSE [d EXCEPT !.DeletedUsers = <<o>> \o @]
      afterOld == F[Len(old.Users)]
      \* the loop over new.Users
      G[i \in 0..Len(new.Users)] ==
        IF i = 0 THEN afterOld.AddedUsers
        ELSE IF new.Users[i].Username \notin DOMAIN oldIndex
               THEN Append(G[i - 1], new.Users[i])
               ELSE G[i - 1]
  IN [afterOld EXCEPT !.AddedUsers = G[Len(new.Users)]]

\* cmdUpdate.diffUsers.
diffUsers(old, new) ==
  LET oldIndex == UserIndex(old.Users)
      newIndex == UserIndex(new.Users)
      \* the loop over old.Users
      F[i \in 0..Len(old.Users)] ==
        IF i = 0 THEN newUserDiff
        ELSE
          LET d == F[i - 1]
              o == old.Users[i]
          IN IF o.Username \in DOMAIN newIndex
               THEN
                 LET n == newIndex[o.Username]
                     deletedPermissions == PermsNotIn(o.Permissions, n.Permissions)
                     addedPermissions == PermsNotIn(n.Permissions, o.Permissions)
                     d1 == IF Len(deletedPermissions) > 0
                             THEN [d EXCEPT !.DeletedPermissions =
                                     MapPut(@, o.Username, deletedPermissions)]
                             ELSE d
                     d2 == IF Len(addedPermissions) > 0
                             THEN [d1 EXCEPT !.AddedPermissions =
                                     MapPut(@, o.Username, addedPermissions)]
                             ELSE d1
                 IN IF o.Arn # n.Arn
                      THEN [d2 EXCEPT !.AddedUsers = Append(@, n),
                                      !.DeletedUsers = Append(@, o)]
                      ELSE d2
               ELSE [d EXCEPT !.DeletedUsers = Append(@, o)]
      afterOld == F[Len(old.Users)]
      \* the loop over new.Users
      G[i \in 0..Len(new.Users)] ==
        IF i = 0 THEN afterOld.AddedUsers
        ELSE IF new.Users[i].Username \notin DOMAIN oldIndex
               THEN Append(G[i - 1], new.Users[i])
               ELSE G[i - 1]
  IN [afterOld EXCEPT !.AddedUsers = G[Len(new.Users)]]

\* A variant of diffConfigOps that appends every key of new that differs.
diffConfigOpsAppendOnly(current, new, old) ==
  {[Op |-> "APPEND", Name |-> k, Value |-> new[k]] :
     k \in {x \in DOMAIN new : x \notin DOMAIN current \/ new[x] # current[x]}}
  \cup
  {[Op |-> "DELETE", Name |-> k, Value |-> old[k]] :
     k \in {x \in DOMAIN old : /\ x \notin DOMAIN new
                               /\ ~(x \in DOMAIN current /\ old[x] # current[x])}}

\* A variant of diffConfigOps that deletes every key of old that new lacks.
diffConfigOpsAlwaysDelete(current, new, old) ==
  {[Op |-> "SET", Name |-> k, Value |-> new[k]] :
     k \in {x \in DOMAIN new : x \in DOMAIN current /\ new[x] # current[x]}}
  \cup
  {[Op |-> "APPEND", Name |-> k, Value |-> new[k]] :
     k \in {x \in DOMAIN new : x \notin DOMAIN current}}
  \cup
  {[Op |-> "DELETE", Name |-> k, Value |-> old[k]] :
     k \in {x \in DOMAIN old : x \notin DOMAIN new}}

\* cmdUpdate.diffConfig after DescribeTopicConfigs: the alterations for the
\* cluster's current config.  Go ranges over the maps in no fixed order and
\* every key yields at most one alteration, so the list is kept as a set.
diffConfigOps(current, new, old) ==
  {[Op |-> "SET", Name |-> k, Value |-> new[k]] :
     k \in {x \in DOMAIN new : x \in DOMAIN current /\ new[x] # current[x]}}
  \cup
  {[Op |-> "APPEND", Name |-> k, Value |-> new[k]] :
     k \in {x \in DOMAIN new : x \notin DOMAIN current}}
  \cup
  {[Op |-> "DELETE", Name |-> k, Value |-> old[k]] :
     k \in {x \in DOMAIN old : /\ x \notin DOMAIN new
                               /\ ~(x \in DOMAIN current /\ old[x] # current[x])}}

\* ------------------------------------------------------------- environment

\* The MSK clusters and their tags: cluster-1 and cluster-2 carry the
\* TR-KMS-KEY tag, cluster-3 does not.
Clusters == {"cluster-1", "cluster-2", "cluster-3"}
NoTags == [t \in {} |-> ""]
ClusterTags(c) ==
  CASE c = "cluster-1" -> [t \in {TagKmsKey} |-> "key-1"]
    [] c = "cluster-2" -> [t \in {TagKmsKey} |-> "key-2"]
    [] OTHER -> NoTags

\* What generatePassword can return.
Passwords == {"pw-1", "pw-2"}

\* AWS errors carry the HTTP status of the response (NoResponse: the error
\* holds no ResponseError); Kafka errors are a kerr.Error with its Retriable
\* flag, or another error.
NoResponse == 0
AwsStatuses == {400, RetriableStatus, NoResponse}

\* handler.go isRetriable.
isRetriable(status) == IF status # NoResponse THEN status >= RetriableStatus ELSE TRUE

\* kerr.IsRetriable.
kerrIsRetriable(o) == o.kerr /\ o.retriable

\* The outcome of a backend call: k = "ok", or the error the call returns.
Ok == [k |-> "ok", status |-> 200, kerr |-> FALSE, retriable |-> FALSE, pick |-> ""]
AnyErr == {[Ok EXCEPT !.k = "err", !.status = RetriableStatus]}
AwsErrs == {[Ok EXCEPT !.k = "err", !.status = st] : st \in AwsStatuses}
Unprocessed == {[Ok EXCEPT !.k = "unprocessed"]}
KafkaErrs ==
  {[Ok EXCEPT !.k = "err", !.kerr = ke, !.retriable = re] :
     ke \in BOOLEAN, re \in BOOLEAN} \ {[Ok EXCEPT !.k = "err", !.retriable = TRUE]}
KafkaResErrs ==
  {[Ok EXCEPT !.k = "reserr", !.kerr = TRUE, !.retriable = re] : re \in BOOLEAN}
IsFault(o) == o.k \notin {"ok", "pick"} /\ o.pick # "rejected"

\* ------------------------------------------------------------------- state

VARIABLES
  topics,    \* Kafka: <<cluster, topic>> -> [Partitions, Replicas, Config]
  acls,      \* Kafka: the ACL bindings
  secrets,   \* Secrets Manager: name -> [password, KmsKeyId, policy]
  assoc,     \* MSK: the <<cluster, secret name>> associations
  grants,    \* KMS: the grants [KeyId, Name, GranteePrincipal]
  req,       \* the cfn.Event being handled (or handled last), with udiff
  pc,        \* the next call of the invocation; "idle" / "done" between two
  phase,     \* the loop of the command the invocation is in
  ui,        \* the index of the loop's user
  ai,        \* the index of the ACL builder in createACLs / deleteACLs
  pend,      \* the keys a range over a permission map has not visited yet
  cur,       \* the key of the permission map being handled
  kmsKeyID,  \* the key Resolve returned
  grantId,   \* DeleteUser: the grant CreateGrant returned
  calls,     \* the calls of this invocation, in order
  res,       \* the error Handle returns: "" for nil
  rid,       \* the PhysicalResourceID Handle returns
  props,     \* the output properties Handle returns
  ninv,      \* invocations started
  nfault,    \* calls that failed
  start,     \* the backends when the invocation started
  hist,      \* what the invocations before did (see Begin)
  last,      \* the call that returned last and its outcome (see Take)
  fn,        \* the function applied on its own (see Apply), "" when none is
  input,     \* its arguments
  output     \* its value

backend == <<topics, acls, secrets, assoc, grants>>
vars == <<topics, acls, secrets, assoc, grants, req, pc, phase, ui, ai, pend, cur,
          kmsKeyID, grantId, calls, res, rid, props, ninv, nfault, start, hist,
          last, fn, input, output>>

\* The backends as one value.
Backend(t, a, s, as, g) == [topics |-> t, acls |-> a, secrets |-> s, assoc |-> as, grants |-> g]

\* The state an invocation reads and writes, as one record.
M ==
  [topics |-> topics, acls |-> acls, secrets |-> secrets, assoc |-> assoc,
   grants |-> grants, pc |-> pc, phase |-> phase, ui |-> ui, ai |-> ai,
   pend |-> pend, cur |-> cur, kmsKeyID |-> kmsKeyID, grantId |-> grantId,
   calls |-> calls, res |-> res, rid |-> rid, props |-> props]

Set(m) ==
  /\ topics' = m.topics /\ acls' = m.acls /\ secrets' = m.secrets
  /\ assoc' = m.assoc /\ grants' = m.grants
  /\ pc' = m.pc /\ phase' = m.phase /\ ui' = m.ui /\ ai' = m.ai
  /\ pend' = m.pend /\ cur' = m.cur /\ kmsKeyID' = m.kmsKeyID
  /\ grantId' = m.grantId /\ calls' = m.calls /\ res' = m.res /\ rid' = m.rid
  /\ props' = m.props

NoGrant == [KeyId |-> "", Name |-> "", GranteePrincipal |-> ""]
\* The nil property map, the nil output properties and the empty ones.
NoProps == Properties({}, "", <<>>, <<>>, "", NoConfig, <<>>, "")
NilProps == [nil |-> TRUE, map |-> NoConfig]
EmptyProps == [nil |-> FALSE, map |-> NoConfig]
NoEvent ==
  [RequestType |-> "", StackID |-> "", PhysicalResourceID |-> "",
   ResourceProperties |-> NoProps, OldResourceProperties |-> NoProps,
   new |-> NewTopicInfo(NoProps), old |-> NewTopicInfo(NoProps),
   udiff |-> diffUsers(NilTopicInfo, NilTopicInfo)]

MapRemove(f, k) == [x \in DOMAIN f \ {k} |-> f[x]]

\* ------------------------------------------------- the invocation's context

\* Handler.create / update / delete: ti (new in update) and old, the results
\* of NewTopicInfo, which the event carries once Handle took it.
New(r) == r.new.ti
Old(r) == r.old.ti
Ssid(r) == shortStackID(r.StackID)

\* The canonical topic name of the command: info.Name, and new.Name in Update.
TopicName(r) == canonicalTopicName(New(r).Name, Ssid(r))

\* The cluster of the Kafka client and of the user manager's MSK calls:
\* ti.ClusterArn, and old.ClusterArn in Update.
ClientCluster(r) ==
  IF r.RequestType = RequestUpdate THEN Old(r).ClusterArn ELSE New(r).ClusterArn

\* cmdUpdate.Run's udiff, which the event carries once Handle took it.
UDiff(r) == r.udiff

\* The users the loop of phase ph ranges over.
LoopUsers(r, ph) ==
  CASE ph = "create" -> New(r).Users
    [] ph = "delete" -> New(r).Users
    [] ph = "update.deleted" -> UDiff(r).DeletedUsers
    [] ph = "update.added" -> UDiff(r).AddedUsers
    [] OTHER -> <<>>

InUserLoop(m) == m.phase \in {"create", "delete", "update.deleted", "update.added"}

\* The raw username and the permission list the user manager works on.
RawUsername(m, r) ==
  IF InUserLoop(m) THEN LoopUsers(r, m.phase)[m.ui].Username ELSE m.cur
Username(m, r) == canonicalUsername(RawUsername(m, r), Ssid(r))
Permissions(m, r) ==
  CASE InUserLoop(m) -> LoopUsers(r, m.phase)[m.ui].Permissions
    [] m.phase = "update.addedPermissions" -> UDiff(r).AddedPermissions[m.cur]
    [] m.phase = "update.deletedPermissions" -> UDiff(r).DeletedPermissions[m.cur]
Arn(m, r) == LoopUsers(r, m.phase)[m.ui].Arn
Builders(m, r) == userPermissionToACL(TopicName(r), Username(m, r), Permissions(m, r))

\* ------------------------------------------------------------ control flow

Call(m, op, arg) == [m EXCEPT !.calls = Append(@, <<op, arg>>)]

\* uuid.NewString()
UUID == "00000000-0000-4000-8000-000000000000"
PropUsernameSuffix == "UsernameSuffix"

\* A variant of Return in which create gives no PhysicalResourceID with an
\* error.
ReturnNoUUID(m, r, err) ==
  [m EXCEPT !.pc = "done", !.res = err,
            !.rid = IF r.RequestType = RequestCreate
                      THEN (IF err = "" THEN TopicName(r) ELSE "")
                      ELSE r.PhysicalResourceID,
            !.props = IF r.RequestType = RequestCreate /\ err = ""
                        THEN [nil |-> FALSE,
                              map |-> [k \in {PropUsernameSuffix} |-> Ssid(r)]]
                      ELSE NilProps]

\* A variant of Return in which every request gives the canonical topic name
\* of its properties as the PhysicalResourceID.
ReturnTopicName(m, r, err) ==
  [m EXCEPT !.pc = "done", !.res = err, !.rid = TopicName(r), !.props = NilProps]

\* Handle returns: Handler.create / update / delete give the PhysicalResourceID.
\* create gives the output properties too: nil when NewTopicInfo or
\* NewKafkaClient failed, else the map, which has UsernameSuffix on success.
Return(m, r, err) ==
  [m EXCEPT !.pc = "done", !.res = err,
            !.rid = IF r.RequestType = RequestCreate
                      THEN (IF err = "" THEN TopicName(r) ELSE UUID)
                      ELSE r.PhysicalResourceID,
            !.props = IF r.RequestType # RequestCreate \/ m.pc = "NewKafkaClient"
                        THEN NilProps
                      ELSE IF err = ""
                        THEN [nil |-> FALSE,
                              map |-> [k \in {PropUsernameSuffix} |-> Ssid(r)]]
                      ELSE EmptyProps]

\* Handler.Handle, the default of the switch: no PhysicalResourceID, no
\* properties, an error.
UnknownRequestType(m) ==
  [m EXCEPT !.pc = "done", !.res = "unknown request type", !.rid = "", !.props = NilProps]

\* A variant of Enter that does not look at the error of NewTopicInfo.
EnterNoValidation(m, r) ==
  IF r.RequestType \notin RequestTypes THEN UnknownRequestType(m) ELSE m

\* Handler.Handle and Handler.create / update / delete: the switch on the
\* request type, then NewTopicInfo of the properties (in update of the old
\* ones first); its error is returned before any call.
Enter(m, r) ==
  IF r.RequestType \notin RequestTypes THEN UnknownRequestType(m)
  ELSE IF r.RequestType = RequestUpdate /\ r.old.err # {}
    THEN Return(m, r, "OldResourceProperties invalid")
  ELSE IF r.new.err # {} THEN Return(m, r, "ResourceProperties invalid")
  ELSE m

\* A variant of AfterDeleteUsers that deletes the topic whatever the policy.
AfterDeleteUsersNoPolicy(m, r) == [m EXCEPT !.pc = "DeleteTopics", !.phase = "delete.topic"]

\* cmdDelete.Run after the loop over the users.
AfterDeleteUsers(m, r) ==
  IF New(r).DeletionPolicy = DeletionPolicyRetain
    THEN Return(m, r, "")
    ELSE [m EXCEPT !.pc = "DeleteTopics", !.phase = "delete.topic"]

\* The call of CreateUser / DeleteUser for user i of the loop ph.
StartCreateUser(m, r, ph, i) ==
  Call([m EXCEPT !.phase = ph, !.ui = i, !.pc = "CreateSecret"],
       "CreateUser", LoopUsers(r, ph)[i].Username)
StartDeleteUser(m, r, ph, i) ==
  Call([m EXCEPT !.phase = ph, !.ui = i, !.ai = 1, !.pc = "DeleteACLs"],
       "DeleteUser", LoopUsers(r, ph)[i].Username)

\* cmdUpdate.Run: the ranges over udiff.DeletedPermissions and AddedPermissions.
EnterDeletedPermissions(m, r) ==
  IF DOMAIN UDiff(r).DeletedPermissions = {}
    THEN Return(m, r, "")
    ELSE [m EXCEPT !.phase = "update.deletedPermissions",
                   !.pend = DOMAIN UDiff(r).DeletedPermissions,
                   !.pc = "RangeDeletedPermissions"]
EnterAddedPermissions(m, r) ==
  IF DOMAIN UDiff(r).AddedPermissions = {}
    THEN EnterDeletedPermissions(m, r)
    ELSE [m EXCEPT !.phase = "update.addedPermissions",
                   !.pend = DOMAIN UDiff(r).AddedPermissions,
                   !.pc = "RangeAddedPermissions"]

\* cmdUpdate.Run: the loop over udiff.AddedUsers.
EnterAddedUsers(m, r) ==
  IF Len(UDiff(r).AddedUsers) = 0
    THEN EnterAddedPermissions(m, r)
    ELSE StartCreateUser(m, r, "update.added", 1)

\* A variant of AfterDeletedUsers that never delays.
AfterDeletedUsersNoDelay(m, r) == EnterAddedUsers(m, r)

\* cmdUpdate.Run: the delay after the deletes, if any user was deleted.
AfterDeletedUsers(m, r) ==
  IF Len(UDiff(r).DeletedUsers) > 0
    THEN [m EXCEPT !.pc = "UpdateFixedDelay", !.phase = "update.delay"]
    ELSE EnterAddedUsers(m, r)

\* cmdUpdate.Run: the loop over udiff.DeletedUsers.
EnterDeletedUsers(m, r) ==
  IF Len(UDiff(r).DeletedUsers) = 0
    THEN AfterDeletedUsers(m, r)
    ELSE StartDeleteUser(m, r, "update.deleted", 1)

\* A variant of UserReturn in which the command goes on after an error.
UserReturnGoOn(m, r, ok) ==
  LET op == IF m.phase \in {"create", "update.added"} THEN "CreateUser" ELSE "DeleteUser"
      m1 == Call(m, op \o ".return", IF ok THEN "ok" ELSE "error")
  IN IF m.ui < Len(LoopUsers(r, m.phase))
       THEN (IF op = "CreateUser"
               THEN StartCreateUser(m1, r, m.phase, m.ui + 1)
               ELSE StartDeleteUser(m1, r, m.phase, m.ui + 1))
     ELSE CASE m.phase = "create" -> Return(m1, r, "")
            [] m.phase = "delete" -> AfterDeleteUsers(m1, r)
            [] m.phase = "update.deleted" -> AfterDeletedUsers(m1, r)
            [] m.phase = "update.added" -> EnterAddedPermissions(m1, r)

\* CreateUser / DeleteUser returns to the loop that called it: the command
\* returns the first error, and goes on with the next user otherwise.
UserReturn(m, r, ok) ==
  LET op == IF m.phase \in {"create", "update.added"} THEN "CreateUser" ELSE "DeleteUser"
      m1 == Call(m, op \o ".return", IF ok THEN "ok" ELSE "error")
  IN IF ~ok THEN Return(m1, r, op \o " failed")
     ELSE IF m.ui < Len(LoopUsers(r, m.phase))
       THEN (IF op = "CreateUser"
               THEN StartCreateUser(m1, r, m.phase, m.ui + 1)
               ELSE StartDeleteUser(m1, r, m.phase, m.ui + 1))
     ELSE CASE m.phase = "create" -> Return(m1, r, "")
            [] m.phase = "delete" -> AfterDeleteUsers(m1, r)
            [] m.phase = "update.deleted" -> AfterDeletedUsers(m1, r)
            [] m.phase = "update.added" -> EnterAddedPermissions(m1, r)

\* userManager.CreateACLs / DeleteACLs returns to cmdUpdate's range.
ACLsReturn(m, r, ok) ==
  LET op == IF m.phase = "update.addedPermissions" THEN "CreateACLs" ELSE "DeleteACLs"
      m1 == Call(m, op \o ".return", IF ok THEN "ok" ELSE "error")
  IN IF ~ok THEN Return(m1, r, op \o " failed")
     ELSE IF m.pend # {}
       THEN [m1 EXCEPT !.pc = IF op = "CreateACLs" THEN "RangeAddedPermissions"
                                                   ELSE "RangeDeletedPermissions"]
     ELSE IF op = "CreateACLs" THEN EnterDeletedPermissions(m1, r)
     ELSE Return(m1, r, "")

\* createACLs returns: to CreateUser, which returns nil, or to CreateACLs.
createACLsReturn(m, r, ok) ==
  IF InUserLoop(m) THEN UserReturn(m, r, ok) ELSE ACLsReturn(m, r, ok)

\* deleteACLs returns: to DeleteUser, which goes on with DescribeSecret unless
\* deleteACLs failed, or to DeleteACLs.
deleteACLsReturn(m, r, ok) ==
  IF InUserLoop(m)
    THEN (IF ok THEN [m EXCEPT !.pc = "DeleteDescribeSecret"] ELSE UserReturn(m, r, FALSE))
    ELSE ACLsReturn(m, r, ok)

\* A variant of AfterResolve in which Delete skips the loop over the users.
AfterResolveNoUsers(m, r) ==
  CASE r.RequestType = RequestCreate -> [m EXCEPT !.pc = "CreateTopic"]
    [] r.RequestType = RequestDelete -> AfterDeleteUsers(m, r)
    [] r.RequestType = RequestUpdate -> [m EXCEPT !.pc = "DescribeTopicConfigs"]

\* The commands after kmsKeyResolver.Resolve returned the key.
AfterResolve(m, r) ==
  CASE r.RequestType = RequestCreate -> [m EXCEPT !.pc = "CreateTopic"]
    [] r.RequestType = RequestDelete ->
         IF Len(New(r).Users) = 0
           THEN AfterDeleteUsers(m, r)
           ELSE StartDeleteUser(m, r, "delete", 1)
    [] r.RequestType = RequestUpdate -> [m EXCEPT !.pc = "DescribeTopicConfigs"]

\* kmsKeyResolver.Resolve up to its call: without users no call is made and
\* the key is empty.
EnterResolve(m, r) ==
  IF Len(New(r).Users) > 0
    THEN [m EXCEPT !.pc = "Resolve"]
    ELSE AfterResolve([m EXCEPT !.kmsKeyID = ""], r)

\* ------------------------------------------------------------------- steps
\* Each step is the invocation's state after one call with outcome o.

\* Handler.create / update / delete: NewKafkaClient, then the command runs.
stepNewKafkaClient(m, r, o) ==
  LET m1 == Call(m, "NewKafkaClient", ClientCluster(r))
  IN IF o.k # "ok" THEN Return(m1, r, "NewKafkaClient failed")
     ELSE IF r.RequestType = RequestUpdate THEN [m1 EXCEPT !.pc = "ListTopics"]
     ELSE EnterResolve(m1, r)

\* A variant of stepResolve that gives the empty key when the tag is missing.
stepResolveNoTagCheck(m, r, o) ==
  LET m1 == Call(m, "DescribeCluster", New(r).ClusterArn)
      tags == ClusterTags(New(r).ClusterArn)
  IN IF o.k # "ok" THEN Return(m1, r, "DescribeCluster failed")
     ELSE AfterResolve([m1 EXCEPT !.kmsKeyID = IF TagKmsKey \in DOMAIN tags
                                                 THEN tags[TagKmsKey] ELSE ""], r)

\* kmsKeyResolver.Resolve: DescribeCluster, then the TR-KMS-KEY tag.
stepResolve(m, r, o) ==
  LET m1 == Call(m, "DescribeCluster", New(r).ClusterArn)
      tags == ClusterTags(New(r).ClusterArn)
  IN IF o.k # "ok" THEN Return(m1, r, "DescribeCluster failed")
     ELSE IF TagKmsKey \notin DOMAIN tags
       THEN Return(m1, r, "MSK cluster must have a tag named TR-KMS-KEY")
     ELSE AfterResolve([m1 EXCEPT !.kmsKeyID = tags[TagKmsKey]], r)

\* A variant of stepCreateTopic that fails when the topic exists.
stepCreateTopicNoRetry(m, r, o) ==
  LET m1 == Call(m, "CreateTopic", TopicName(r))
      t == <<ClientCluster(r), TopicName(r)>>
      m2 == [m1 EXCEPT !.topics = MapPut(@, t,
               [Partitions |-> New(r).Partitions,
                Replicas |-> New(r).ReplicationFactor,
                Config |-> New(r).Config])]
  IN IF o.k # "ok" THEN Return(m1, r, "CreateTopic failed")
     ELSE IF t \in DOMAIN m.topics THEN Return(m1, r, "TOPIC_ALREADY_EXISTS")
     ELSE IF Len(New(r).Users) = 0 THEN Return(m2, r, "")
     ELSE StartCreateUser(m2, r, "create", 1)

\* cmdCreate.Run: CreateTopic, TopicAlreadyExists tolerated, then the users.
stepCreateTopic(m, r, o) ==
  LET m1 == Call(m, "CreateTopic", TopicName(r))
      t == <<ClientCluster(r), TopicName(r)>>
      m2 == IF t \in DOMAIN m.topics THEN m1
            ELSE [m1 EXCEPT !.topics = MapPut(@, t,
                    [Partitions |-> New(r).Partitions,
                     Replicas |-> New(r).ReplicationFactor,
                     Config |-> New(r).Config])]
  IN IF o.k # "ok" THEN Return(m1, r, "CreateTopic failed")
     ELSE IF Len(New(r).Users) = 0 THEN Return(m2, r, "")
     ELSE StartCreateUser(m2, r, "create", 1)

\* A variant of AfterSecret that never grants access to the Arn.
AfterSecretNoArn(m, r) == [m EXCEPT !.pc = "CreateFixedDelay"]

\* CreateUser: generatePassword and CreateSecret; ResourceExistsException
\* leads to DescribeSecret.
AfterSecret(m, r) ==
  IF Arn(m, r) # "" THEN [m EXCEPT !.pc = "PutResourcePolicy"]
  ELSE [m EXCEPT !.pc = "CreateFixedDelay"]

\* A variant of stepCreateSecret that fails when the secret exists.
stepCreateSecretNoRetry(m, r, o) ==
  LET m1 == Call(m, "CreateSecret", RawUsername(m, r))
      name == Username(m, r)
  IN IF o.k = "pwerr" THEN UserReturn(m, r, FALSE)
     ELSE IF o.k # "ok" THEN UserReturn(m1, r, FALSE)
     ELSE IF name \in DOMAIN m.secrets THEN UserReturn(m1, r, FALSE)
     ELSE AfterSecret([m1 EXCEPT !.secrets = MapPut(@, name,
                         [password |-> o.pick, KmsKeyId |-> m.kmsKeyID, policy |-> ""])], r)

\* A variant of stepCreateSecret that writes the new password into a secret
\* that exists.
stepCreateSecretOverwrite(m, r, o) ==
  LET m1 == Call(m, "CreateSecret", RawUsername(m, r))
      name == Username(m, r)
  IN IF o.k = "pwerr" THEN UserReturn(m, r, FALSE)
     ELSE IF o.k # "ok" THEN UserReturn(m1, r, FALSE)
     ELSE IF name \in DOMAIN m.secrets
       THEN [m1 EXCEPT !.pc = "CreateDescribeSecret", !.secrets[name].password = o.pick]
     ELSE AfterSecret([m1 EXCEPT !.secrets = MapPut(@, name,
                         [password |-> o.pick, KmsKeyId |-> m.kmsKeyID, policy |-> ""])], r)

stepCreateSecret(m, r, o) ==
  LET m1 == Call(m, "CreateSecret", RawUsername(m, r))
      name == Username(m, r)
  IN IF o.k = "pwerr" THEN UserReturn(m, r, FALSE)
     ELSE IF o.k # "ok" THEN UserReturn(m1, r, FALSE)
     ELSE IF name \in DOMAIN m.secrets THEN [m1 EXCEPT !.pc = "CreateDescribeSecret"]
     ELSE AfterSecret([m1 EXCEPT !.secrets = MapPut(@, name,
                         [password |-> o.pick, KmsKeyId |-> m.kmsKeyID, policy |-> ""])], r)

stepCreateDescribeSecret(m, r, o) ==
  LET m1 == Call(m, "DescribeSecret", RawUsername(m, r))
  IN IF o.k # "ok" THEN UserReturn(m1, r, FALSE) ELSE AfterSecret(m1, r)

\* grantAccessToSecretForArn: PutResourcePolicy, then CreateGrant.
stepPutResourcePolicy(m, r, o) ==
  LET m1 == Call(m, "PutResourcePolicy", RawUsername(m, r))
      name == Username(m, r)
  IN IF o.k # "ok" THEN UserReturn(m1, r, FALSE)
     ELSE [m1 EXCEPT !.pc = "CreateGrant",
                     !.secrets = IF name \in DOMAIN @
                                   THEN [@ EXCEPT ![name].policy = Arn(m, r)] ELSE @]

TheGrant(m, r) == [KeyId |-> m.kmsKeyID, Name |-> Username(m, r), GranteePrincipal |-> Arn(m, r)]

stepCreateGrant(m, r, o) ==
  LET m1 == Call(m, "CreateGrant", RawUsername(m, r))
  IN IF o.k # "ok" THEN UserReturn(m1, r, FALSE)
     ELSE [m1 EXCEPT !.pc = "CreateFixedDelay", !.grants = @ \cup {TheGrant(m, r)}]

\* CreateUser: um.fixedDelay.
stepCreateFixedDelay(m, r, o) ==
  [Call(m, "um.fixedDelay", RawUsername(m, r)) EXCEPT !.pc = "Associate"]

\* A variant of stepAssociate that fails when the secret is associated already.
stepAssociateNoRetry(m, r, o) ==
  LET m1 == Call(m, "BatchAssociateScramSecret", RawUsername(m, r))
      a == <<ClientCluster(r), Username(m, r)>>
  IN IF o.k # "ok" THEN UserReturn(m1, r, FALSE)
     ELSE IF a \in m.assoc THEN UserReturn(m1, r, FALSE)
     ELSE [m1 EXCEPT !.assoc = @ \cup {a}, !.ai = 1, !.pc = "CreateACLs"]

\* CreateUser: BatchAssociateScramSecret; the unprocessed secret that is
\* already associated is tolerated; then createACLs.
stepAssociate(m, r, o) ==
  LET m1 == Call(m, "BatchAssociateScramSecret", RawUsername(m, r))
      a == <<ClientCluster(r), Username(m, r)>>
  IN IF o.k # "ok" THEN UserReturn(m1, r, FALSE)
     ELSE [m1 EXCEPT !.assoc = @ \cup {a}, !.ai = 1, !.pc = "CreateACLs"]

\* createACLs: one CreateACLs call per builder; an error of the call or of
\* its first result ends it.
stepCreateACLs(m, r, o) ==
  LET m1 == Call(m, "kafka.CreateACLs", RawUsername(m, r))
      bs == Builders(m, r)
      m2 == [m1 EXCEPT !.acls = @ \cup Bindings(ClientCluster(r), bs[m.ai])]
  IN IF o.k # "ok" THEN createACLsReturn(m1, r, FALSE)
     ELSE IF m.ai < Len(bs) THEN [m2 EXCEPT !.ai = m.ai + 1]
     ELSE createACLsReturn(m2, r, TRUE)

\* deleteACLs: one DeleteACLs call per builder.
stepDeleteACLs(m, r, o) ==
  LET m1 == Call(m, "kafka.DeleteACLs", RawUsername(m, r))
      bs == Builders(m, r)
      m2 == [m1 EXCEPT !.acls = @ \ Bindings(ClientCluster(r), bs[m.ai])]
      next(x) == IF m.ai < Len(bs) THEN [x EXCEPT !.ai = m.ai + 1]
                 ELSE deleteACLsReturn(x, r, TRUE)
  IN CASE o.k = "ok" -> next(m2)
       [] o.k = "err" ->
            IF kerrIsRetriable(o) THEN deleteACLsReturn(m1, r, FALSE)
            ELSE deleteACLsReturn(m1, r, TRUE)
       [] o.k = "reserr" ->
            IF kerrIsRetriable(o) THEN deleteACLsReturn(m1, r, FALSE)
            ELSE next(m1)

\* DeleteUser: DescribeSecret; ResourceNotFoundException ends DeleteUser with nil.
stepDeleteDescribeSecret(m, r, o) ==
  LET m1 == Call(m, "DescribeSecret", RawUsername(m, r))
  IN IF o.k # "ok" THEN UserReturn(m1, r, FALSE)
     ELSE IF Username(m, r) \notin DOMAIN m.secrets THEN UserReturn(m1, r, TRUE)
     ELSE [m1 EXCEPT !.pc = "Disassociate"]

\* DeleteUser: BatchDisassociateScramSecret.  A secret that is not associated
\* comes back unprocessed as an invalid secret ARN, which is tolerated.
AfterDisassociate(m, r) ==
  IF Arn(m, r) # "" THEN [m EXCEPT !.pc = "DeleteCreateGrant"]
  ELSE [m EXCEPT !.pc = "DeleteSecret"]

\* A variant of stepDisassociate that logs every error and carries on.
stepDisassociateGoOn(m, r, o) ==
  LET m1 == Call(m, "BatchDisassociateScramSecret", RawUsername(m, r))
      a == <<ClientCluster(r), Username(m, r)>>
  IN CASE o.k = "ok" -> AfterDisassociate([m1 EXCEPT !.assoc = @ \ {a}], r)
       [] o.k = "unprocessed" -> UserReturn(m1, r, FALSE)
       [] o.k = "err" -> AfterDisassociate(m1, r)

stepDisassociate(m, r, o) ==
  LET m1 == Call(m, "BatchDisassociateScramSecret", RawUsername(m, r))
      a == <<ClientCluster(r), Username(m, r)>>
  IN CASE o.k = "ok" -> AfterDisassociate([m1 EXCEPT !.assoc = @ \ {a}], r)
       [] o.k = "unprocessed" -> UserReturn(m1, r, FALSE)
       [] o.k = "err" ->
            IF isRetriable(o.status) THEN UserReturn(m1, r, FALSE)
            ELSE AfterDisassociate(m1, r)

\* DeleteUser: CreateGrant to find the grant id, then RevokeGrant.
stepDeleteCreateGrant(m, r, o) ==
  LET m1 == Call(m, "CreateGrant", RawUsername(m, r))
  IN CASE o.k = "ok" ->
            [m1 EXCEPT !.pc = "RevokeGrant", !.grantId = TheGrant(m, r),
                       !.grants = @ \cup {TheGrant(m, r)}]
       [] o.k = "err" ->
            IF isRetriable(o.status) THEN UserReturn(m1, r, FALSE)
            ELSE [m1 EXCEPT !.pc = "DeleteSecret"]

stepRevokeGrant(m, r, o) ==
  LET m1 == [Call(m, "RevokeGrant", RawUsername(m, r)) EXCEPT !.grantId = NoGrant]
  IN CASE o.k = "ok" -> [m1 EXCEPT !.pc = "DeleteSecret", !.grants = @ \ {m.grantId}]
       [] o.k = "err" ->
            IF isRetriable(o.status) THEN UserReturn(m1, r, FALSE)
            ELSE [m1 EXCEPT !.pc = "DeleteSecret"]

\* DeleteUser: DeleteSecret, the last step.
stepDeleteSecret(m, r, o) ==
  LET m1 == Call(m, "DeleteSecret", RawUsername(m, r))
      name == Username(m, r)
  IN CASE o.k = "ok" ->
            UserReturn([m1 EXCEPT !.secrets = IF name \in DOMAIN @
                                                THEN MapRemove(@, name) ELSE @], r, TRUE)
       [] o.k = "err" ->
            IF isRetriable(o.status) THEN UserReturn(m1, r, FALSE)
            ELSE UserReturn(m1, r, TRUE)

\* cmdDelete.Run: DeleteTopics; UnknownTopicOrPartition is tolerated.
stepDeleteTopics(m, r, o) ==
  LET m1 == Call(m, "DeleteTopics", TopicName(r))
      t == <<ClientCluster(r), TopicName(r)>>
  IN IF o.k # "ok" THEN Return(m1, r, "DeleteTopics failed")
     ELSE Return([m1 EXCEPT !.topics = IF t \in DOMAIN @ THEN MapRemove(@, t) ELSE @],
                 r, "")

\* A variant of stepListTopics without the checks of partitions and replicas.
stepListTopicsNoCheck(m, r, o) ==
  LET m1 == Call(m, "ListTopics", TopicName(r))
      t == <<ClientCluster(r), TopicName(r)>>
  IN IF o.k # "ok" THEN Return(m1, r, "ListTopics failed")
     ELSE IF t \notin DOMAIN m.topics
       THEN (IF Old(r).Name # New(r).Name
               THEN Return(m1, r, "cannot update Name and ClusterArn properties")
               ELSE Return(m1, r, "UNKNOWN_TOPIC_OR_PARTITION"))
     ELSE EnterResolve(m1, r)

\* cmdUpdate.Run: ListTopics on the canonical name of new, then the checks of
\* the topic's error, its partitions and its replicas.
stepListTopics(m, r, o) ==
  LET m1 == Call(m, "ListTopics", TopicName(r))
      t == <<ClientCluster(r), TopicName(r)>>
  IN IF o.k # "ok" THEN Return(m1, r, "ListTopics failed")
     ELSE IF t \notin DOMAIN m.topics
       THEN (IF Old(r).Name # New(r).Name
               THEN Return(m1, r, "cannot update Name and ClusterArn properties")
               ELSE Return(m1, r, "UNKNOWN_TOPIC_OR_PARTITION"))
     ELSE IF m.topics[t].Partitions # New(r).Partitions
       THEN Return(m1, r, "Cannot update Partitions")
     ELSE IF m.topics[t].Replicas # New(r).ReplicationFactor
       THEN Return(m1, r, "Cannot update ReplicationFactor")
     ELSE EnterResolve(m1, r)

\* The alterations diffConfig computes from the topic's current config.
ConfigDiff(m, r) ==
  diffConfigOps(m.topics[<<ClientCluster(r), TopicName(r)>>].Config,
                New(r).Config, Old(r).Config)

\* A variant of stepDescribeTopicConfigs that alters the config in any case.
stepDescribeTopicConfigsAlways(m, r, o) ==
  LET m1 == Call(m, "DescribeTopicConfigs", TopicName(r))
  IN IF o.k # "ok" THEN Return(m1, r, "DescribeTopicConfigs failed")
     ELSE [m1 EXCEPT !.pc = "AlterTopicConfigs"]

\* cmdUpdate.diffConfig: DescribeTopicConfigs; AlterTopicConfigs follows if
\* there is an alteration, the user diff otherwise.
stepDescribeTopicConfigs(m, r, o) ==
  LET m1 == Call(m, "DescribeTopicConfigs", TopicName(r))
  IN IF o.k # "ok" THEN Return(m1, r, "DescribeTopicConfigs failed")
     ELSE IF ConfigDiff(m, r) # {} THEN [m1 EXCEPT !.pc = "AlterTopicConfigs"]
     ELSE EnterDeletedUsers(m1, r)

\* The cluster applies an incremental alteration.
AlterConfig(cfg, ops) ==
  LET gone == {a.Name : a \in {x \in ops : x.Op = "DELETE"}}
      put == {a \in ops : a.Op \in {"SET", "APPEND"}}
  IN [k \in (DOMAIN cfg \ gone) \cup {a.Name : a \in put} |->
        IF \E a \in put : a.Name = k
          THEN (CHOOSE a \in put : a.Name = k).Value
          ELSE cfg[k]]

stepAlterTopicConfigs(m, r, o) ==
  LET m1 == Call(m, "AlterTopicConfigs", TopicName(r))
      t == <<ClientCluster(r), TopicName(r)>>
  IN IF o.k # "ok" THEN Return(m1, r, "AlterTopicConfigs failed")
     ELSE EnterDeletedUsers(
            [m1 EXCEPT !.topics[t].Config = AlterConfig(@, ConfigDiff(m, r))], r)

\* cmdUpdate.Run: a.fixedDelay after the deleted users.
stepUpdateFixedDelay(m, r, o) ==
  EnterAddedUsers(Call(m, "fixedDelay", ""), r)

\* cmdUpdate.Run: the range over udiff.AddedPermissions takes the key o.pick
\* and calls CreateACLs.
stepRangeAddedPermissions(m, r, o) ==
  Call([m EXCEPT !.cur = o.pick, !.pend = @ \ {o.pick}, !.ai = 1, !.pc = "CreateACLs"],
       "CreateACLs", o.pick)

\* cmdUpdate.Run: the range over udiff.DeletedPermissions calls DeleteACLs.
stepRangeDeletedPermissions(m, r, o) ==
  Call([m EXCEPT !.cur = o.pick, !.pend = @ \ {o.pick}, !.ai = 1, !.pc = "DeleteACLs"],
       "DeleteACLs", o.pick)

\* ---------------------------------------------------------------- outcomes

\* What the call at m.pc can return.  KMS rejects a grant for an empty key id
\* with a validation error (status 400).
Rejected == [Ok EXCEPT !.k = "err", !.status = 400, !.pick = "rejected"]

Outcomes(m) ==
  CASE m.pc = "CreateSecret" ->
         {[Ok EXCEPT !.pick = p] : p \in Passwords} \cup AnyErr
           \cup {[Ok EXCEPT !.k = "pwerr"]}
    [] m.pc \in {"CreateFixedDelay", "UpdateFixedDelay"} -> {Ok}
    [] m.pc = "DeleteACLs" -> {Ok} \cup KafkaErrs \cup KafkaResErrs
    [] m.pc = "Disassociate" -> {Ok} \cup AwsErrs \cup Unprocessed
    [] m.pc = "Associate" -> {Ok} \cup AnyErr \cup Unprocessed
    [] m.pc = "DeleteCreateGrant" ->
         IF m.kmsKeyID = "" THEN {Rejected} ELSE {Ok} \cup AwsErrs
    [] m.pc \in {"RevokeGrant", "DeleteSecret"} -> {Ok} \cup AwsErrs
    [] m.pc \in {"RangeAddedPermissions", "RangeDeletedPermissions"} ->
         {[Ok EXCEPT !.k = "pick", !.pick = u] : u \in m.pend}
    [] OTHER -> {Ok} \cup AnyErr

\* The invocation after the call at m.pc returned o.
Step(m, r, o) ==
  CASE m.pc = "NewKafkaClient" -> stepNewKafkaClient(m, r, o)
    [] m.pc = "Resolve" -> stepResolve(m, r, o)
    [] m.pc = "CreateTopic" -> stepCreateTopic(m, r, o)
    [] m.pc = "CreateSecret" -> stepCreateSecret(m, r, o)
    [] m.pc = "CreateDescribeSecret" -> stepCreateDescribeSecret(m, r, o)
    [] m.pc = "PutResourcePolicy" -> stepPutResourcePolicy(m, r, o)
    [] m.pc = "CreateGrant" -> stepCreateGrant(m, r, o)
    [] m.pc = "CreateFixedDelay" -> stepCreateFixedDelay(m, r, o)
    [] m.pc = "Associate" -> stepAssociate(m, r, o)
    [] m.pc = "CreateACLs" -> stepCreateACLs(m, r, o)
    [] m.pc = "DeleteACLs" -> stepDeleteACLs(m, r, o)
    [] m.pc = "DeleteDescribeSecret" -> stepDeleteDescribeSecret(m, r, o)
    [] m.pc = "Disassociate" -> stepDisassociate(m, r, o)
    [] m.pc = "DeleteCreateGrant" -> stepDeleteCreateGrant(m, r, o)
    [] m.pc = "RevokeGrant" -> stepRevokeGrant(m, r, o)
    [] m.pc = "DeleteSecret" -> stepDeleteSecret(m, r, o)
    [] m.pc = "DeleteTopics" -> stepDeleteTopics(m, r, o)
    [] m.pc = "ListTopics" -> stepListTopics(m, r, o)
    [] m.pc = "DescribeTopicConfigs" -> stepDescribeTopicConfigs(m, r, o)
    [] m.pc = "AlterTopicConfigs" -> stepAlterTopicConfigs(m, r, o)
    [] m.pc = "UpdateFixedDelay" -> stepUpdateFixedDelay(m, r, o)
    [] m.pc = "RangeAddedPermissions" -> stepRangeAddedPermissions(m, r, o)
    [] m.pc = "RangeDeletedPermissions" -> stepRangeDeletedPermissions(m, r, o)

\* A run of the invocation in which no call fails: every call returns Ok, the
\* password is the first one and a range takes some key.
NoFault(m) ==
  CASE m.pc = "CreateSecret" -> [Ok EXCEPT !.pick = "pw-1"]
    [] m.pc \in {"RangeAddedPermissions", "RangeDeletedPermissions"} ->
         [Ok EXCEPT !.k = "pick", !.pick = CHOOSE u \in m.pend : TRUE]
    [] m.pc = "DeleteCreateGrant" /\ m.kmsKeyID = "" -> Rejected
    [] OTHER -> Ok

RECURSIVE RunToEnd(_, _)
RunToEnd(m, r) == IF m.pc = "done" THEN m ELSE RunToEnd(Step(m, r, NoFault(m)), r)

\* ------------------------------------------------------------------ events

Alice1R == UserProperties(UserSchemaKeys, "alice", "arn-1", <<PermissionRead>>)
Alice2W == UserProperties(UserSchemaKeys, "alice", "arn-2", <<PermissionWrite>>)
Bob0RW == UserProperties(UserRequiredKeys, "bob", "", <<PermissionRead, PermissionWrite>>)
Bob0R == UserProperties(UserRequiredKeys, "bob", "", <<PermissionRead>>)

UserLists == {<<>>, <<Alice1R>>, <<Alice2W>>, <<Alice1R, Bob0RW>>, <<Bob0R>>}

Base(us) ==
  Properties(RequiredKeys \cup {"Users"}, "a", <<"1">>, <<"1">>, "cluster-1", NoConfig, us, "")

\* The resource properties of the model: the base topic (no DeletionPolicy
\* given) with each user list, and the base topic with one user and one other
\* property changed; the last one violates the schema.
Infos ==
  {Base(us) : us \in UserLists} \cup
  {[Base(<<Alice1R>>) EXCEPT !.Name = "b"],
   [Base(<<Alice1R>>) EXCEPT !.Partitions = <<"2">>],
   [Base(<<Alice1R>>) EXCEPT !.ReplicationFactor = <<"2">>],
   [Base(<<Alice1R>>) EXCEPT !.ClusterArn = "cluster-2"],
   [Base(<<Alice1R>>) EXCEPT !.ClusterArn = "cluster-3"],
   [Base(<<Alice1R>>) EXCEPT !.Keys = @ \cup {"Config"}, !.Config = Cfg("1")],
   [Base(<<Alice1R>>) EXCEPT !.Keys = @ \cup {"DeletionPolicy"},
                             !.DeletionPolicy = DeletionPolicyRetain],
   [Base(<<Alice1R>>) EXCEPT !.Keys = @ \cup {"DeletionPolicy"},
                             !.DeletionPolicy = DeletionPolicyDelete],
   [Base(<<Alice1R>>) EXCEPT !.Partitions = <<"1", "a">>]}

Event(type, stack, old, new) ==
  [RequestType |-> type, StackID |-> stack,
   PhysicalResourceID |->
     CASE type = RequestCreate -> ""
       [] type = RequestUpdate -> canonicalTopicName(old.Name, shortStackID(stack))
       [] type = RequestDelete -> canonicalTopicName(new.Name, shortStackID(stack)),
   ResourceProperties |-> new, OldResourceProperties |-> old,
   new |-> NewTopicInfo(new), old |-> NewTopicInfo(old),
   udiff |-> diffUsers(NewTopicInfo(old).ti, NewTopicInfo(new).ti)]

\* An event of a request type Handle does not know, for a resource that may
\* exist.
UnknownEvent ==
  [Event(RequestDelete, "stack-1", NoProps, Base(<<Alice1R>>)) EXCEPT !.RequestType = "Unknown"]

Events ==
  {UnknownEvent} \cup
  {Event(RequestCreate, s, NoProps, i) : s \in StackIDs, i \in Infos} \cup
  {Event(RequestDelete, s, NoProps, i) : s \in StackIDs, i \in Infos} \cup
  {Event(RequestUpdate, s, i, j) : s \in StackIDs, i \in Infos, j \in Infos}

\* ----------------------------------------------------------------- actions

NoTopics == [t \in {} |-> 0]
NoSecrets == [n \in {} |-> 0]
EmptyBackend == Backend(NoTopics, {}, NoSecrets, {}, {})
\* No call returned yet.
NoCall == [pc |-> "", o |-> Ok]
NoHist == [same |-> FALSE, ok |-> FALSE, rid |-> "", nfault |-> 0, first |-> EmptyBackend]

Init ==
  /\ topics = NoTopics /\ acls = {} /\ secrets = NoSecrets /\ assoc = {} /\ grants = {}
  /\ req = NoEvent /\ pc = "idle" /\ phase = "" /\ ui = 0 /\ ai = 0
  /\ pend = {} /\ cur = "" /\ kmsKeyID = "" /\ grantId = NoGrant
  /\ calls = <<>> /\ res = "" /\ rid = "" /\ props = NilProps
  /\ ninv = 0 /\ nfault = 0 /\ start = EmptyBackend /\ hist = NoHist
  /\ last = NoCall
  /\ fn = "" /\ input = <<>> /\ output = <<>>

\* The locals of a fresh invocation.
Fresh(m) ==
  [m EXCEPT !.pc = "NewKafkaClient", !.phase = "", !.ui = 0, !.ai = 0, !.pend = {},
            !.cur = "", !.kmsKeyID = "", !.grantId = NoGrant, !.calls = <<>>,
            !.res = "", !.rid = "", !.props = NilProps]

\* The events CloudFormation can deliver after the invocation that just ended:
\* the same event again (a re-delivery or a retry), an Update from or a Delete
\* of the properties a successful Create or Update left deployed, the Delete
\* that rolls a failed Create back, the Update that rolls a failed Update
\* back, and a new Create after a successful Delete; an event of an unknown
\* type can come for a deployed resource.  The first event is any.
Follows(e) ==
  \/ pc = "idle"
  \/ e = req
  \/ /\ req.RequestType \in {RequestCreate, RequestUpdate} /\ res = ""
     /\ \/ e.RequestType = RequestUpdate /\ e.OldResourceProperties = req.ResourceProperties
        \/ e.RequestType = RequestDelete /\ e.ResourceProperties = req.ResourceProperties
        \/ e.RequestType \notin RequestTypes /\ e.ResourceProperties = req.ResourceProperties
  \/ /\ req.RequestType = RequestCreate /\ res # ""
     /\ e.RequestType = RequestDelete /\ e.ResourceProperties = req.ResourceProperties
  \/ /\ req.RequestType = RequestUpdate /\ res # ""
     /\ e.RequestType = RequestUpdate
     /\ e.OldResourceProperties = req.ResourceProperties
     /\ e.ResourceProperties = req.OldResourceProperties
  \/ /\ req.RequestType = RequestDelete /\ res = ""
     /\ e.RequestType = RequestCreate

\* Handler.Handle: the event e arrives.  hist keeps of the invocation before:
\* whether it handled the same event, whether it succeeded, the id it
\* returned; the count of failed calls when this one starts; and the backends
\* when the first of the failed attempts that this one retries started.
Deliver(e) ==
  /\ pc \in {"idle", "done"}
  /\ req' = e
  /\ Set(Enter(Fresh(M), e))
  /\ start' = Backend(topics, acls, secrets, assoc, grants)
  /\ hist' = [same |-> (pc = "done" /\ e = req), ok |-> (pc = "done" /\ res = ""),
              rid |-> rid, nfault |-> nfault,
              first |-> IF pc = "done" /\ e = req /\ res # "" THEN hist.first
                        ELSE Backend(topics, acls, secrets, assoc, grants)]
  /\ last' = NoCall
  /\ UNCHANGED <<nfault, fn, input, output>>

\* The events of one resource arrive in the order of its life.
Invoke(e) ==
  /\ Follows(e)
  /\ Deliver(e)

\* At most MaxInvocations events arrive in one behaviour.
Begin(e) ==
  /\ ninv < MaxInvocations
  /\ Invoke(e)
  /\ ninv' = ninv + 1

Handle == \E e \in Events : Begin(e)

\* A call returns with outcome o and leaves the invocation at m; a failing
\* call counts against MaxFaults.  last keeps the call and what it returned.
Take(o, m) ==
  /\ IsFault(o) => nfault < MaxFaults
  /\ Set(m)
  /\ last' = [pc |-> pc, o |-> o]
  /\ nfault' = IF IsFault(o) THEN nfault + 1 ELSE nfault
  /\ UNCHANGED <<req, ninv, start, hist, fn, input, output>>

\* The call the invocation is at returns one of its outcomes.
Returns(step(_, _, _)) == \E o \in Outcomes(M) : Take(o, step(M, req, o))

NewKafkaClient ==
  /\ pc = "NewKafkaClient"
  /\ Returns(stepNewKafkaClient)

Resolve ==
  /\ pc = "Resolve"
  /\ Returns(stepResolve)

CreateTopic ==
  /\ pc = "CreateTopic"
  /\ Returns(stepCreateTopic)

CreateSecret ==
  /\ pc = "CreateSecret"
  /\ Returns(stepCreateSecret)

CreateDescribeSecret ==
  /\ pc = "CreateDescribeSecret"
  /\ Returns(stepCreateDescribeSecret)

PutResourcePolicy ==
  /\ pc = "PutResourcePolicy"
  /\ Returns(stepPutResourcePolicy)

CreateGrant ==
  /\ pc = "CreateGrant"
  /\ Returns(stepCreateGrant)

CreateFixedDelay ==
  /\ pc = "CreateFixedDelay"
  /\ Returns(stepCreateFixedDelay)

Associate ==
  /\ pc = "Associate"
  /\ Returns(stepAssociate)

CreateACLs ==
  /\ pc = "CreateACLs"
  /\ Returns(stepCreateACLs)

DeleteACLs ==
  /\ pc = "DeleteACLs"
  /\ Returns(stepDeleteACLs)

DeleteDescribeSecret ==
  /\ pc = "DeleteDescribeSecret"
  /\ Returns(stepDeleteDescribeSecret)

Disassociate ==
  /\ pc = "Disassociate"
  /\ Returns(stepDisassociate)

DeleteCreateGrant ==
  /\ pc = "DeleteCreateGrant"
  /\ Returns(stepDeleteCreateGrant)

RevokeGrant ==
  /\ pc = "RevokeGrant"
  /\ Returns(stepRevokeGrant)

DeleteSecret ==
  /\ pc = "DeleteSecret"
  /\ Returns(stepDeleteSecret)

DeleteTopics ==
  /\ pc = "DeleteTopics"
  /\ Returns(stepDeleteTopics)

ListTopics ==
  /\ pc = "ListTopics"
  /\ Returns(stepListTopics)

DescribeTopicConfigs ==
  /\ pc = "DescribeTopicConfigs"
  /\ Returns(stepDescribeTopicConfigs)

AlterTopicConfigs ==
  /\ pc = "AlterTopicConfigs"
  /\ Returns(stepAlterTopicConfigs)

UpdateFixedDelay ==
  /\ pc = "UpdateFixedDelay"
  /\ Returns(stepUpdateFixedDelay)

RangeAddedPermissions ==
  /\ pc = "RangeAddedPermissions"
  /\ Returns(stepRangeAddedPermissions)

RangeDeletedPermissions ==
  /\ pc = "RangeDeletedPermissions"
  /\ Returns(stepRangeDeletedPermissions)


Next ==
  \/ Handle
  \/ NewKafkaClient \/ Resolve
  \/ CreateTopic \/ CreateSecret \/ CreateDescribeSecret \/ PutResourcePolicy
  \/ CreateGrant \/ CreateFixedDelay \/ Associate \/ CreateACLs
  \/ DeleteACLs \/ DeleteDescribeSecret \/ Disassociate \/ DeleteCreateGrant
  \/ RevokeGrant \/ DeleteSecret \/ DeleteTopics
  \/ ListTopics \/ DescribeTopicConfigs \/ AlterTopicConfigs \/ UpdateFixedDelay
  \/ RangeAddedPermissions \/ RangeDeletedPermissions

Spec == Init /\ [][Next]_vars

\* ------------------------------------------------- Create under caller retry

\* The caller of a Create: it sends one Create and sends the same event again
\* whenever the invocation returned an error, as often as it takes (ninv stops
\* counting at MaxInvocations).
CreateEvents == {e \in Events : e.RequestType = RequestCreate}

Retry ==
  /\ pc = "idle" \/ (pc = "done" /\ res # "")
  /\ \/ pc = "idle" /\ \E e \in CreateEvents : Invoke(e)
     \/ pc = "done" /\ req.RequestType = RequestCreate /\ Invoke(req)
  /\ ninv' = IF ninv < MaxInvocations THEN ninv + 1 ELSE ninv

RetryNext ==
  \/ Retry
  \/ NewKafkaClient \/ Resolve
  \/ CreateTopic \/ CreateSecret \/ CreateDescribeSecret \/ PutResourcePolicy
  \/ CreateGrant \/ CreateFixedDelay \/ Associate \/ CreateACLs

\* Every call returns and the caller does retry: the step that is enabled is
\* taken.  At most MaxFaults calls fail, so the errors stop.
RetrySpec == Init /\ [][RetryNext]_vars /\ WF_vars(RetryNext)

\* --------------------------------------------- two resources of one stack

\* A stack with two topic resources, a and b, that declare the same user: the
\* stack creates b, then a, and then deletes a or updates a to have no user.
\* An invocation that returned an error is sent again.
SharedEvents ==
  LET a == Base(<<Alice1R>>)
      b == [Base(<<Alice1R>>) EXCEPT !.Name = "b"]
  IN [CreateA |-> Event(RequestCreate, "stack-1", NoProps, a),
      CreateB |-> Event(RequestCreate, "stack-1", NoProps, b),
      DeleteA |-> Event(RequestDelete, "stack-1", NoProps, a),
      UpdateA |-> Event(RequestUpdate, "stack-1", a, Base(<<>>))]

Deploy ==
  /\ \/ pc = "idle" /\ Deliver(SharedEvents.CreateB)
     \/ pc = "done" /\ res # "" /\ Deliver(req)
     \/ pc = "done" /\ res = "" /\ req = SharedEvents.CreateB
          /\ Deliver(SharedEvents.CreateA)
     \/ pc = "done" /\ res = "" /\ req = SharedEvents.CreateA
          /\ \E e \in {SharedEvents.DeleteA, SharedEvents.UpdateA} : Deliver(e)
  /\ UNCHANGED ninv

SharedNext ==
  \/ Deploy
  \/ NewKafkaClient \/ Resolve
  \/ CreateTopic \/ CreateSecret \/ CreateDescribeSecret \/ PutResourcePolicy
  \/ CreateGrant \/ CreateFixedDelay \/ Associate \/ CreateACLs
  \/ DeleteACLs \/ DeleteDescribeSecret \/ Disassociate \/ DeleteCreateGrant
  \/ RevokeGrant \/ DeleteSecret
  \/ ListTopics \/ DescribeTopicConfigs \/ UpdateFixedDelay

SharedSpec == Init /\ [][SharedNext]_vars

\* ------------------------------------------------- the functions on their own

\* The user lists the functions are applied to: valid users, a user with no
\* permission, one with an unknown permission, one without Permissions, one
\* with an unknown key, and lists that repeat a Username.
UserMapLists ==
  LET UserMaps ==
        {Alice1R, Alice2W, Bob0RW, Bob0R,
         UserProperties(UserSchemaKeys, "alice", "arn-2", <<PermissionRead>>),
         UserProperties(UserRequiredKeys, "bob", "", <<PermissionWrite, PermissionRead>>),
         UserProperties(UserRequiredKeys, "carol", "", <<>>),
         UserProperties(UserSchemaKeys, "dave", "arn-1", <<PermissionRead, "READING">>),
         UserProperties({"Username"}, "erin", "", <<>>),
         UserProperties(UserSchemaKeys \cup {"Password"}, "frank", "arn-2", <<PermissionWrite>>)}
  IN {<<>>} \cup {<<u>> : u \in UserMaps}
       \cup {<<Alice1R, Bob0RW>>, <<Bob0R, Alice1R>>, <<Alice1R, Alice2W>>, <<Bob0R, Bob0RW>>,
             <<Alice1R, Alice1R>>}

\* The property maps NewTopicInfo is applied to: each choice of keys (none,
\* the required ones, with optional ones, with an unknown one, one required
\* key missing), of the two number strings, of the users and of the policy.
\* A key the map lacks has the default in its field.
PropertyMaps ==
  LET KeyChoices ==
        {{}, RequiredKeys, RequiredKeys \cup {"Users"}, RequiredKeys \cup {"DeletionPolicy"},
         RequiredKeys \cup {"Users", "DeletionPolicy"},
         RequiredKeys \cup {"Users", "Bogus"},
         (RequiredKeys \ {"Name"}) \cup {"Users"},
         RequiredKeys \ {"Partitions"}}
      NumberStrings == {<<"1">>, <<"0">>, <<>>, <<"1", "a">>, <<"1", "2">>}
      PolicyStrings == {DeletionPolicyDelete, DeletionPolicyRetain, "INVALID_POLICY"}
      Normal(p) ==
        [p EXCEPT !.ServiceToken = IF "ServiceToken" \in p.Keys THEN @ ELSE "",
                  !.Name = IF "Name" \in p.Keys THEN @ ELSE "",
                  !.Partitions = IF "Partitions" \in p.Keys THEN @ ELSE <<>>,
                  !.ReplicationFactor = IF "ReplicationFactor" \in p.Keys THEN @ ELSE <<>>,
                  !.ClusterArn = IF "ClusterArn" \in p.Keys THEN @ ELSE "",
                  !.Users = IF "Users" \in p.Keys THEN @ ELSE <<>>,
                  !.DeletionPolicy = IF "DeletionPolicy" \in p.Keys THEN @ ELSE ""]
  IN {Normal(Properties(ks, "a", p, rf, "cluster-1", NoConfig, us, dp)) :
        ks \in KeyChoices, p \in NumberStrings, rf \in {<<"3">>, <<"3", "a">>},
        us \in UserMapLists, dp \in PolicyStrings}

\* The raw names and the stack ids the naming functions are applied to.
RawNames == {"", "a", "b", "a-b", "a_b", "a-AAAAAAA1", "AmazonMSK_a"}
NameStackIDs == {"stack-1", "stack-2"}

\* The TopicInfo of a user list, for diffUsers.
InfoOf(us) == NewTopicInfo(Base(us)).ti

\* One function is applied, once, to arguments drawn from these sets.
Apply(f, a, v) ==
  /\ fn' = f /\ input' = a /\ output' = v
  /\ UNCHANGED <<topics, acls, secrets, assoc, grants, req, pc, phase, ui, ai, pend, cur,
                 kmsKeyID, grantId, calls, res, rid, props, ninv, nfault, start, hist,
                 last>>

ApplyNewTopicInfo ==
  /\ fn = ""
  /\ \E p \in PropertyMaps : Apply("NewTopicInfo", p, NewTopicInfo(p))

ApplyCanonicalNames ==
  /\ fn = ""
  /\ \E n1, n2 \in RawNames, s1, s2 \in NameStackIDs :
    Apply("canonicalNames", <<[name |-> n1, stack |-> s1], [name |-> n2, stack |-> s2]>>,
          <<[topic |-> canonicalTopicName(n1, shortStackID(s1)),
             user |-> canonicalUsername(n1, shortStackID(s1))],
            [topic |-> canonicalTopicName(n2, shortStackID(s2)),
             user |-> canonicalUsername(n2, shortStackID(s2))]>>)

ApplyDiffUsers ==
  /\ fn = ""
  /\ \E o, n \in UserMapLists :
    /\ Validate(Base(o)) = {} /\ Validate(Base(n)) = {}
    /\ Apply("diffUsers", <<InfoOf(o), InfoOf(n)>>, diffUsers(InfoOf(o), InfoOf(n)))

\* The config maps diffConfig is applied to: old, new and the cluster's
\* current config, each any map from some of two keys to one of two values,
\* and the maps of TestCmdUpdate's config case.
ConfigTriples ==
  LET Maps == UNION {[ks -> {"1", "2"}] : ks \in SUBSET {"a", "b"}}
      Of(ks, vs) == [k \in ks |-> vs[k]]
      V == [a |-> "1", b |-> "2", c |-> "1", d |-> "3", x |-> "1"]
  IN {<<o, n, c>> : o \in Maps, n \in Maps, c \in Maps} \cup
     {<<Of({"a", "b", "c"}, V), Of({"a", "c", "d"}, [V EXCEPT !.a = "2"]),
        Of({"a", "b", "c", "x"}, V)>>}

ApplyDiffConfig ==
  /\ fn = ""
  /\ \E t \in ConfigTriples :
       Apply("diffConfig", t, diffConfigOps(t[3], t[2], t[1]))

\* The permission lists the ACL mapping is applied to: every list of at most
\* MaxPermissions permissions, the empty one and those with repetitions too.
MaxPermissions == 3
PermissionLists == UNION {[1..n -> PermissionEnum] : n \in 0..MaxPermissions}

ApplyUserPermissionToACL ==
  /\ fn = ""
  /\ \E n \in {"alice", "bob"}, st \in NameStackIDs, ps \in PermissionLists :
       Apply("userPermissionToACL",
             [topic |-> "a-AAAAAAA1", username |-> n, stack |-> st, permissions |-> ps],
             [create |-> CreateACLsBuilders("a-AAAAAAA1", n, shortStackID(st), ps),
              delete |-> DeleteACLsBuilders("a-AAAAAAA1", n, shortStackID(st), ps)])

FnNext ==
  \/ ApplyNewTopicInfo
  \/ ApplyCanonicalNames
  \/ ApplyDiffUsers
  \/ ApplyDiffConfig
  \/ ApplyUserPermissionToACL

FnSpec == Init /\ [][FnNext]_vars

\* ------------------------------------------------------------------ claims

IsCreate == req.RequestType = RequestCreate
IsUpdate == req.RequestType = RequestUpdate
IsDelete == req.RequestType = RequestDelete
Done == pc = "done"
Now == Backend(topics, acls, secrets, assoc, grants)

\* The positions of the calls of op in the invocation's log, and their count.
CallIdx(op) == {i \in 1..Len(calls) : calls[i][1] = op}
Count(op) == Cardinality(CallIdx(op))
ReturnedOk(op) == {i \in CallIdx(op \o ".return") : calls[i][2] = "ok"}
ReturnedError(op) == {i \in CallIdx(op \o ".return") : calls[i][2] = "error"}

\* The place of a call in the order of Update's user changes; 0 for the others.
Rank(op) ==
  CASE op = "DeleteUser" -> 1
    [] op = "fixedDelay" -> 2
    [] op = "CreateUser" -> 3
    [] op = "CreateACLs" -> 4
    [] op = "DeleteACLs" -> 5
    [] OTHER -> 0

InOrder ==
  \A i, j \in 1..Len(calls) :
    (i < j /\ Rank(calls[i][1]) > 0 /\ Rank(calls[j][1]) > 0)
      => Rank(calls[i][1]) <= Rank(calls[j][1])

\* Every user of DeletedUsers was deleted and DeleteUser returned nil each time.
AllDeleted ==
  /\ Len(UDiff(req).DeletedUsers) > 0
  /\ Cardinality(ReturnedOk("DeleteUser")) = Len(UDiff(req).DeletedUsers)

\* C1, as amended: in every Update invocation the DeleteUser calls precede the
\* CreateUser calls, which precede the CreateACLs calls, which precede the
\* DeleteACLs calls; the settling delay runs at most once, between the last
\* DeleteUser and the first CreateUser, and it runs if and only if
\* DeletedUsers is not empty and every DeleteUser returned success.
C1_UpdateOrder ==
  IsUpdate =>
    /\ InOrder
    /\ Count("fixedDelay") <= 1
    /\ Count("fixedDelay") = 1 => AllDeleted
    /\ (AllDeleted /\ pc # "UpdateFixedDelay") => Count("fixedDelay") = 1

\* C1 as stated: the delay runs exactly once if and only if DeletedUsers is
\* not empty, in every Update invocation.
C1_AsStated ==
  (IsUpdate /\ Done) =>
    /\ InOrder
    /\ Count("fixedDelay") <= 1
    /\ Count("fixedDelay") = 1 <=> Len(UDiff(req).DeletedUsers) > 0

\* An Update that deleted a user, delayed, created a user, granted and revoked.
C1_Witness ==
  /\ IsUpdate /\ Done /\ res = ""
  /\ Count("DeleteUser") > 0 /\ Count("fixedDelay") = 1 /\ Count("CreateUser") > 0
  /\ Count("CreateACLs") > 0 /\ Count("DeleteACLs") > 0

ImmutableChanged ==
  \/ Old(req).Name # New(req).Name
  \/ Old(req).ClusterArn # New(req).ClusterArn
  \/ Old(req).Partitions # New(req).Partitions
  \/ Old(req).ReplicationFactor # New(req).ReplicationFactor

Mutating == {"AlterTopicConfigs", "DeleteUser", "CreateUser", "CreateACLs", "DeleteACLs"}
NoMutatingCall == \A i \in 1..Len(calls) : calls[i][1] \notin Mutating

\* C2: an Update whose new properties differ from the old ones in Name,
\* ClusterArn, Partitions or ReplicationFactor returns an error and makes no
\* mutating call, whatever topics exist on the cluster.
C2_AsStated ==
  (IsUpdate /\ ImmutableChanged) =>
    /\ NoMutatingCall
    /\ Done => res # ""

\* The canonical topic as the cluster had it when the invocation started.
TopicKey == <<ClientCluster(req), TopicName(req)>>
TopicAtStart == TopicKey \in DOMAIN start.topics
ListTopicsAnswered ==
  /\ Count("ListTopics") = 1
  /\ res \notin {"NewKafkaClient failed", "ListTopics failed"}
LastCallIsListTopics == Len(calls) > 0 /\ calls[Len(calls)][1] = "ListTopics"

\* C3: when the cluster reports for the canonical topic a partition count
\* other than new.Partitions, Update fails with "Cannot update Partitions",
\* makes no call after ListTopics and changes nothing; when the partition
\* counts agree and the replica count differs from new.ReplicationFactor, the
\* same holds with "Cannot update ReplicationFactor".
C3_PartitionsAndReplicas ==
  (IsUpdate /\ Done /\ TopicAtStart /\ ListTopicsAnswered) =>
    /\ start.topics[TopicKey].Partitions # New(req).Partitions =>
         /\ res = "Cannot update Partitions"
         /\ LastCallIsListTopics /\ Now = start
    /\ (/\ start.topics[TopicKey].Partitions = New(req).Partitions
        /\ start.topics[TopicKey].Replicas # New(req).ReplicationFactor) =>
         /\ res = "Cannot update ReplicationFactor"
         /\ LastCallIsListTopics /\ Now = start

\* An Update of a topic the cluster reports with another partition count.
C3_Witness ==
  /\ IsUpdate /\ Done /\ TopicAtStart /\ ListTopicsAnswered
  /\ start.topics[TopicKey].Partitions # New(req).Partitions
  /\ res = "Cannot update Partitions"

\* No call of this invocation has failed so far.
NoFaultNow == nfault = hist.nfault

\* The event was delivered before, to the invocation just before this one,
\* which returned nil.
Redelivered == hist.same /\ hist.ok

\* C4: a Create delivered a second time, with the same properties and stack,
\* after a first Create that succeeded, succeeds when its calls do, returns
\* the same PhysicalResourceID and leaves the backends as the first left them.
C4_CreateIdempotent ==
  (IsCreate /\ Done /\ Redelivered /\ NoFaultNow) =>
    /\ res = ""
    /\ rid = hist.rid
    /\ Now = start

\* A second Create of a topic with a user has ended.
C4_Witness ==
  /\ IsCreate /\ Done /\ Redelivered /\ NoFaultNow
  /\ Len(New(req).Users) > 0 /\ res = ""
  /\ Count("CreateSecret") > 0

\* C5: a Delete delivered a second time, with the same properties, after a
\* first Delete that reported success, returns success and changes no backend
\* state.
C5_AsStated ==
  (IsDelete /\ Done /\ Redelivered /\ NoFaultNow) =>
    /\ res = ""
    /\ Now = start

IsDeleteUserCall(c) == c[1] = "DeleteUser"
DeleteUserCalls == SelectSeq(calls, IsDeleteUserCall)
Retained == IsDelete /\ New(req).DeletionPolicy = DeletionPolicyRetain

\* The DeleteUser calls so far are for the first users of the desired state,
\* in its order.
DeleteUserPrefix ==
  /\ Len(DeleteUserCalls) <= Len(New(req).Users)
  /\ \A i \in 1..Len(DeleteUserCalls) :
       DeleteUserCalls[i][2] = New(req).Users[i].Username

ResolveFailed == res \in {"DescribeCluster failed", "MSK cluster must have a tag named TR-KMS-KEY"}

C7_DeleteTopicsLast ==
  IsDelete =>
    /\ \A i \in CallIdx("DeleteTopics") :
         /\ New(req).DeletionPolicy = DeletionPolicyDelete
         /\ Len(DeleteUserCalls) = Len(New(req).Users) /\ DeleteUserPrefix
         /\ Cardinality({j \in ReturnedOk("DeleteUser") : j < i}) = Len(New(req).Users)
    /\ (ReturnedError("DeleteUser") # {} \/ ResolveFailed) =>
         /\ Count("DeleteTopics") = 0
         /\ topics = start.topics

\* A Delete with policy DELETE removed the users and then the topic.
C7_Witness ==
  /\ IsDelete /\ Done /\ res = ""
  /\ Len(New(req).Users) > 0
  /\ Count("DeleteTopics") = 1
  /\ TopicKey \in DOMAIN start.topics /\ TopicKey \notin DOMAIN topics

\* The canonical names of the users of the desired state, and what a user of
\* that name still has: a secret, an association, a grant, or an ACL on the
\* topic or on the groups.
UserNames(info) ==
  {canonicalUsername(info.Users[i].Username, Ssid(req)) : i \in 1..Len(info.Users)}
HasSecret(n) == n \in DOMAIN secrets
HasAssociation(n) == \E a \in assoc : a[2] = n
HasGrant(n) == \E g \in grants : g.Name = n
UserACLs(n) ==
  {a \in acls : /\ a.principal = <<"User", n>>
                /\ \/ a.rtype = "GROUP"
                   \/ a.rtype = "TOPIC" /\ a.rname = TopicName(req)}
Orphan(n) == HasSecret(n) \/ HasAssociation(n) \/ HasGrant(n) \/ UserACLs(n) # {}

\* C8: when a Delete reports success, no user of the deleted resource has a
\* secret, a cluster association, a grant or an ACL left, whatever the
\* backends answered.
C8_AsStated ==
  (IsDelete /\ Done /\ res = "") => \A n \in UserNames(New(req)) : ~Orphan(n)

\* The backends without the passwords.
Proj(b) ==
  [topics |-> b.topics, acls |-> b.acls, assoc |-> b.assoc, grants |-> b.grants,
   secrets |-> [n \in DOMAIN b.secrets |->
                  [KmsKeyId |-> b.secrets[n].KmsKeyId, policy |-> b.secrets[n].policy]]]

\* The backends after event e is handled from the backends b with no call
\* failing, and the error that invocation returns.
FaultFree(b, e) ==
  RunToEnd(Enter(Fresh([M EXCEPT !.topics = b.topics, !.acls = b.acls,
                                 !.secrets = b.secrets, !.assoc = b.assoc,
                                 !.grants = b.grants]), e), e)
BackendOf(m) == Backend(m.topics, m.acls, m.secrets, m.assoc, m.grants)

\* The backends as a successful Create of the old properties leaves them.
CreatedOld ==
  FaultFree(EmptyBackend, Event(RequestCreate, req.StackID, NoProps, req.OldResourceProperties))
StartMatchesOld == CreatedOld.res = "" /\ Proj(start) = Proj(BackendOf(CreatedOld))

OnlyInOld ==
  UserNames(Old(req)) \ UserNames(New(req))

\* Every user of new has a secret, an association and exactly the ACLs of its
\* permissions; a user of old only has none of them.
Converged ==
  /\ \A i \in 1..Len(New(req).Users) :
       LET n == canonicalUsername(New(req).Users[i].Username, Ssid(req))
       IN /\ HasSecret(n)
          /\ <<ClientCluster(req), n>> \in assoc
          /\ UserACLs(n) = ACLsOf(ClientCluster(req), TopicName(req), n,
                                  New(req).Users[i].Permissions)
  /\ \A n \in OnlyInOld : ~HasSecret(n) /\ ~HasAssociation(n) /\ UserACLs(n) = {}

\* C9: from backends as a successful Create of old left them, an Update that
\* changes no immutable field and returns success leaves every user of new
\* with a secret, an association and exactly the ACLs of its new permissions,
\* and every user of old only without secret, association and ACL.
C9_AsStated ==
  (IsUpdate /\ Done /\ res = "" /\ ~ImmutableChanged /\ StartMatchesOld) => Converged

\* What C10 compares: the topics with their config, the names of the secrets,
\* the associations and the ACLs.
Final(b) ==
  [topics |-> b.topics, secrets |-> DOMAIN b.secrets, assoc |-> b.assoc, acls |-> b.acls]

\* C10: an Update that failed and is invoked again with the same old and new
\* properties until it succeeds leaves the topic config, the secrets, the
\* associations and the ACLs as an Update that succeeds with no failure does.
\* The formula asks it only of a last attempt in which no call fails.
C10_AsStated ==
  (IsUpdate /\ Done /\ res = "" /\ hist.same /\ ~hist.ok /\ NoFaultNow
     /\ FaultFree(hist.first, req).res = "") =>
    Final(Now) = Final(BackendOf(FaultFree(hist.first, req)))

\* The cluster of the desired state carries the TR-KMS-KEY tag, or the desired
\* state has no user.
Resolvable ==
  Len(New(req).Users) = 0 \/ TagKmsKey \in DOMAIN ClusterTags(New(req).ClusterArn)

\* A Create returned success and the topic and, for every user, the secret,
\* the association and the ACLs of the permissions are there.
CreateSucceeded ==
  /\ IsCreate /\ Done /\ res = ""
  /\ TopicKey \in DOMAIN topics
  /\ \A i \in 1..Len(New(req).Users) :
       LET n == canonicalUsername(New(req).Users[i].Username, Ssid(req))
       IN /\ HasSecret(n)
          /\ <<ClientCluster(req), n>> \in assoc
          /\ ACLsOf(ClientCluster(req), TopicName(req), n,
                    New(req).Users[i].Permissions) \subseteq acls

C12_CreateResourceID ==
  (IsCreate /\ Done) =>
    /\ rid # ""
    /\ res = "" =>
         /\ rid = canonicalTopicName(req.ResourceProperties.Name, shortStackID(req.StackID))
         /\ ~props.nil
         /\ PropUsernameSuffix \in DOMAIN props.map
         /\ props.map[PropUsernameSuffix] = shortStackID(req.StackID)

\* A Create succeeds as the retry of a Create that failed and returned an id.
C12_Witness ==
  /\ IsCreate /\ Done /\ res = "" /\ hist.same /\ ~hist.ok
  /\ hist.rid # "" /\ rid # hist.rid

\* C13: every Update and every Delete returns the PhysicalResourceID of the
\* event, on success and on every failure.
C13_EchoResourceID ==
  ((IsUpdate \/ IsDelete) /\ Done) => rid = req.PhysicalResourceID

\* An Update that renames the topic fails and returns the id of the event,
\* which is not the canonical name of the new properties.
C13_Witness ==
  /\ IsUpdate /\ Done /\ res # "" /\ req.PhysicalResourceID # ""
  /\ rid = req.PhysicalResourceID /\ rid # TopicName(req)

\* The properties passed validation (in Update, the old ones too).
Validated == req.new.err = {} /\ (IsUpdate => req.old.err = {})
MissingTagError == "MSK cluster must have a tag named TR-KMS-KEY"

\* C14: with no user in the desired state the key is empty and DescribeCluster
\* is never called; with a user in the desired state and a cluster without
\* the TR-KMS-KEY tag, Resolve returns the missing-tag error when its
\* DescribeCluster call succeeds, and the Create, Update or Delete returns an
\* error and changes no topic, config, secret, association, grant or ACL.
C14_KeyResolution ==
  (pc # "idle" /\ Validated) =>
    /\ Len(New(req).Users) = 0 => (Count("DescribeCluster") = 0 /\ kmsKeyID = "")
    /\ (Len(New(req).Users) > 0 /\ ~Resolvable) =>
         /\ Now = start
         /\ Done => res # ""
         /\ (Done /\ Count("DescribeCluster") = 1 /\ res # "DescribeCluster failed")
              => res = MissingTagError

\* An Update whose new properties name a cluster without the tag returns the
\* missing-tag error, with the secret of a user in place.
C14_Witness ==
  /\ IsUpdate /\ Done /\ res = MissingTagError
  /\ DOMAIN start.secrets # {} /\ Now = start

\* The violations of a property map, as C15 lists them: a required key that
\* is missing (of the map, of a user), a number string with a character that
\* is no digit, a permission other than READ and WRITE, a DeletionPolicy other
\* than DELETE and RETAIN, a key of the map or of a user that the schema does
\* not know.
NonNumeric(str) == \E i \in 1..Len(str) : str[i] \notin Digits
UsersOf(p) == IF "Users" \in p.Keys THEN p.Users ELSE <<>>
PermissionsOf(u) == IF "Permissions" \in u.Keys THEN u.Permissions ELSE <<>>
Violations(p) ==
  LET us == UsersOf(p)
  IN ({SchemaError("(root)", 0, 0, "required", k) :
         k \in {"ServiceToken", "Name", "Partitions", "ReplicationFactor", "ClusterArn"}
                 \ p.Keys})
     \cup (UNION {{SchemaError("Users", i, 0, "required", k) :
                     k \in {"Username", "Permissions"} \ us[i].Keys} : i \in 1..Len(us)})
     \cup ({SchemaError(k, 0, 0, "pattern", k) :
              k \in {x \in {"Partitions", "ReplicationFactor"} \cap p.Keys :
                       NonNumeric(p[x])}})
     \cup (UNION {{SchemaError("Users", i, j, "enum", "Permissions") :
                     j \in {x \in 1..Len(PermissionsOf(us[i])) :
                              PermissionsOf(us[i])[x] \notin {"READ", "WRITE"}}} :
                  i \in 1..Len(us)})
     \cup (IF "DeletionPolicy" \in p.Keys /\ p.DeletionPolicy \notin {"DELETE", "RETAIN"}
             THEN {SchemaError("DeletionPolicy", 0, 0, "enum", "DeletionPolicy")}
             ELSE {})
     \cup ({SchemaError("(root)", 0, 0, "additional", k) :
              k \in p.Keys \ {"ServiceToken", "Name", "Partitions", "ReplicationFactor",
                              "ClusterArn", "Config", "Users", "DeletionPolicy"}})
     \cup (UNION {{SchemaError("Users", i, 0, "additional", k) :
                     k \in us[i].Keys \ {"Username", "Arn", "Permissions"}} :
                  i \in 1..Len(us)})

\* C15: for a property map that violates the schema NewTopicInfo returns no
\* TopicInfo and an error whose message holds every one of the violations; for
\* the empty map it names the five required keys.
C15_ValidationErrors ==
  (fn = "NewTopicInfo" /\ Violations(input) # {}) =>
    /\ output.nil
    /\ Violations(input) \subseteq output.err
    /\ input.Keys = {} =>
         {e.key : e \in {x \in output.err : x.kind = "required"}} =
           {"ServiceToken", "Name", "Partitions", "ReplicationFactor", "ClusterArn"}

\* NewTopicInfo was applied to a map with at least three violations of
\* different kinds.
C15_Witness ==
  /\ fn = "NewTopicInfo" /\ output.nil
  /\ Cardinality({e.kind : e \in Violations(input)}) >= 3
  /\ Violations(input) \subseteq output.err

C17_AsStated ==
  (fn = "NewTopicInfo" /\ ~output.nil /\ output.err = {}) =>
    /\ output.ti.Partitions > 0 /\ output.ti.ReplicationFactor > 0
    /\ \A i, j \in 1..Len(output.ti.Users) :
         i # j => output.ti.Users[i].Username # output.ti.Users[j].Username
    /\ \A i \in 1..Len(output.ti.Users) : Len(output.ti.Users[i].Permissions) > 0

\* C18: the canonical topic name and the canonical username are functions of
\* the raw name and the stack id: equal arguments give equal names; in one
\* stack, two different raw names give two different canonical topic names
\* and two different canonical usernames, and the same raw username gives the
\* same canonical username.
C18_CanonicalNames ==
  fn = "canonicalNames" =>
    /\ input[1] = input[2] => output[1] = output[2]
    /\ (input[1].stack = input[2].stack /\ input[1].name # input[2].name) =>
         /\ output[1].topic # output[2].topic
         /\ output[1].user # output[2].user
    /\ (input[1].stack = input[2].stack /\ input[1].name = input[2].name) =>
         output[1].user = output[2].user

\* The names of "a" and "a-b" in one stack were computed.
C18_Witness ==
  /\ fn = "canonicalNames"
  /\ input[1].stack = input[2].stack /\ input[1].name = "a" /\ input[2].name = "a-b"
  /\ output[1].topic # output[2].topic /\ output[1].user # output[2].user

\* The Usernames of a TopicInfo.
NamesOf(info) == {info.Users[i].Username : i \in 1..Len(info.Users)}

\* C19: when no Username of old is a Username of new, the user diff has
\* AddedUsers equal to new.Users and DeletedUsers equal to old.Users, each in
\* order, and no AddedPermissions and no DeletedPermissions.
C19_DisjointDiff ==
  (fn = "diffUsers" /\ NamesOf(input[1]) \cap NamesOf(input[2]) = {}) =>
    /\ output.AddedUsers = input[2].Users
    /\ output.DeletedUsers = input[1].Users
    /\ DOMAIN output.AddedPermissions = {}
    /\ DOMAIN output.DeletedPermissions = {}

\* diffUsers was applied to two users of old and one other user of new.
C19_Witness ==
  /\ fn = "diffUsers" /\ NamesOf(input[1]) \cap NamesOf(input[2]) = {}
  /\ Len(input[1].Users) = 2 /\ Len(input[2].Users) = 1
  /\ input[1].Users[1].Username # input[1].Users[2].Username
  /\ output.DeletedUsers = input[1].Users /\ output.AddedUsers = input[2].Users

\* C20, the diff: when old and new have identical Users, the four collections
\* of the user diff are empty.
C20_AsStated ==
  (fn = "diffUsers" /\ input[1].Users = input[2].Users) =>
    /\ output.AddedUsers = <<>> /\ output.DeletedUsers = <<>>
    /\ DOMAIN output.AddedPermissions = {}
    /\ DOMAIN output.DeletedPermissions = {}

\* The Usernames that name exactly one user of old and exactly one of new, and
\* the user a Username names.
Single(users, n) == Cardinality({i \in 1..Len(users) : users[i].Username = n}) = 1
Shared == {n \in NamesOf(input[1]) \cap NamesOf(input[2]) :
             Single(input[1].Users, n) /\ Single(input[2].Users, n)}
OldUser(n) == UserIndex(input[1].Users)[n]
NewUser(n) == UserIndex(input[2].Users)[n]
Replaced(n) ==
  /\ NewUser(n) \in Range(output.AddedUsers)
  /\ OldUser(n) \in Range(output.DeletedUsers)

\* C21: when a user keeps its Username and its set of Permissions and its Arn
\* changes, the new version is in AddedUsers, the old version is in
\* DeletedUsers, and the Username has no entry in AddedPermissions or
\* DeletedPermissions.
C21_ArnChange ==
  fn = "diffUsers" =>
    \A n \in Shared :
      (Range(OldUser(n).Permissions) = Range(NewUser(n).Permissions)
         /\ OldUser(n).Arn # NewUser(n).Arn) =>
        /\ Replaced(n)
        /\ n \notin DOMAIN output.AddedPermissions
        /\ n \notin DOMAIN output.DeletedPermissions

\* diffUsers was applied to alice with arn-1 and alice with arn-2, READ in both.
C21_Witness ==
  /\ fn = "diffUsers"
  /\ Len(input[1].Users) = 1 /\ Len(input[2].Users) = 1
  /\ "alice" \in Shared
  /\ OldUser("alice").Arn = "arn-1" /\ NewUser("alice").Arn = "arn-2"
  /\ OldUser("alice").Permissions = NewUser("alice").Permissions
  /\ output.AddedUsers = input[2].Users /\ output.DeletedUsers = input[1].Users

\* C22: for every Username of old and new whose Arn differs, whatever the
\* Permissions are, the user is in AddedUsers and in DeletedUsers and the
\* Username has no entry in AddedPermissions or DeletedPermissions.
C22_AsStated ==
  fn = "diffUsers" =>
    \A n \in Shared :
      OldUser(n).Arn # NewUser(n).Arn =>
        /\ Replaced(n)
        /\ n \notin DOMAIN output.AddedPermissions
        /\ n \notin DOMAIN output.DeletedPermissions

\* The entry of a permission map as a set: empty when the map has no entry.
Entry(map, n) == IF n \in DOMAIN map THEN Range(map[n]) ELSE {}

\* C25: for every Username of old and new with the same Arn,
\* DeletedPermissions[Username] is the set of the old Permissions that are not
\* new ones, AddedPermissions[Username] the set of the new ones that are not
\* old ones, an entry is there only when its set is not empty, and the user is
\* in neither AddedUsers nor DeletedUsers.
C25_PermissionDiff ==
  fn = "diffUsers" =>
    \A n \in Shared :
      OldUser(n).Arn = NewUser(n).Arn =>
        /\ Entry(output.DeletedPermissions, n)
             = Range(OldUser(n).Permissions) \ Range(NewUser(n).Permissions)
        /\ Entry(output.AddedPermissions, n)
             = Range(NewUser(n).Permissions) \ Range(OldUser(n).Permissions)
        /\ n \in DOMAIN output.DeletedPermissions => output.DeletedPermissions[n] # <<>>
        /\ n \in DOMAIN output.AddedPermissions => output.AddedPermissions[n] # <<>>
        /\ \A u \in Range(output.AddedUsers) \cup Range(output.DeletedUsers) :
             u.Username # n

\* diffUsers was applied to bob with READ and WRITE and bob with READ, next to
\* a user that is only in one list.
C25_Witness ==
  /\ fn = "diffUsers" /\ "bob" \in Shared
  /\ OldUser("bob").Permissions = <<PermissionRead, PermissionWrite>>
  /\ NewUser("bob").Permissions = <<PermissionRead>>
  /\ output.DeletedPermissions = [n \in {"bob"} |-> <<PermissionWrite>>]
  /\ DOMAIN output.AddedPermissions = {}
  /\ Len(output.DeletedUsers) = 1

\* The arguments and the result of an application of diffConfig, and the
\* alterations of the result that name the key k.
OldConfig == input[1]
NewConfig == input[2]
Current == input[3]
OpsOf(k) == {a \in output : a.Name = k}
Op(op, k, v) == [Op |-> op, Name |-> k, Value |-> v]

\* C23: a key of new that the current config lacks yields exactly one append
\* with the new value; a key of new whose current value differs yields exactly
\* one set with the new value; a key of new whose current value is the new one
\* yields no alteration; no alteration names a key that is neither in old nor
\* in new; and old {a:1,b:2,c:1}, new {a:2,c:1,d:3}, current
\* {a:1,b:2,c:1,x:1} give append d:3, set a:2 and delete b:2 only.
C23_ConfigDiff ==
  fn = "diffConfig" =>
    /\ \A k \in DOMAIN NewConfig :
         OpsOf(k) = IF k \notin DOMAIN Current THEN {Op("APPEND", k, NewConfig[k])}
                    ELSE IF NewConfig[k] # Current[k] THEN {Op("SET", k, NewConfig[k])}
                    ELSE {}
    /\ \A a \in output : a.Name \in DOMAIN OldConfig \cup DOMAIN NewConfig
    /\ DOMAIN Current = {"a", "b", "c", "x"} =>
         output = {Op("APPEND", "d", "3"), Op("SET", "a", "2"), Op("DELETE", "b", "2")}

\* diffConfig was applied to the maps of the example.
C23_Witness ==
  /\ fn = "diffConfig" /\ DOMAIN Current = {"a", "b", "c", "x"}
  /\ DOMAIN OldConfig = {"a", "b", "c"} /\ DOMAIN NewConfig = {"a", "c", "d"}
  /\ Op("SET", "a", "2") \in output /\ Op("APPEND", "d", "3") \in output

\* The keys of old that new lacks.
Removed == DOMAIN OldConfig \ DOMAIN NewConfig

\* C24, as amended: a delete names a key that is in old and not in new and
\* that the current config lacks or holds with the old value; a removed key
\* whose current value differs from the old one yields no alteration.
C24_DeleteOnlyIf ==
  fn = "diffConfig" =>
    /\ \A a \in output :
         a.Op = "DELETE" =>
           /\ a.Name \in Removed
           /\ a.Name \in DOMAIN Current => Current[a.Name] = OldConfig[a.Name]
    /\ \A k \in Removed :
         (k \in DOMAIN Current /\ Current[k] # OldConfig[k]) => OpsOf(k) = {}

\* C24 as stated: a delete names a key that is in old and not in new and that
\* the current config holds with the old value.
C24_AsStated ==
  fn = "diffConfig" =>
    /\ \A a \in output :
         a.Op = "DELETE" =>
           /\ a.Name \in Removed
           /\ a.Name \in DOMAIN Current /\ Current[a.Name] = OldConfig[a.Name]
    /\ \A k \in Removed :
         (k \in DOMAIN Current /\ Current[k] # OldConfig[k]) => OpsOf(k) = {}

\* diffConfig was applied to a removed key that was changed out of band and a
\* removed key that was not: only the second is deleted.
C24_Witness ==
  /\ fn = "diffConfig" /\ Removed = {"a", "b"} /\ DOMAIN Current = {"a", "b"}
  /\ Current["a"] # OldConfig["a"] /\ Current["b"] = OldConfig["b"]
  /\ output = {Op("DELETE", "b", OldConfig["b"])}

\* The calls of the user manager by the commands, their positions in the log,
\* whether position i lies inside one, and whether i and j lie in the same one.
ManagerOps == {"CreateUser", "DeleteUser", "CreateACLs", "DeleteACLs"}
Starts == {i \in 1..Len(calls) : calls[i][1] \in ManagerOps}
Inside(i) == \E s \in 1..i : calls[s][1] \in ManagerOps
SameSeg(i, j) == \A k \in (i + 1)..j : calls[k][1] \notin ManagerOps

\* The calls issued after position i of the log.
After(i) == {calls[j][1] : j \in (i + 1)..Len(calls)}

\* The calls createACLs / deleteACLs issue once per ACL builder.
PerBuilder == {"kafka.CreateACLs", "kafka.DeleteACLs"}
MostBuilders ==
  Len(userPermissionToACL("t", "u", <<PermissionRead, PermissionWrite>>))

\* No call is issued twice for one step: the calls of the command itself are
\* issued once, CreateUser / DeleteUser once per user of the loop, CreateACLs /
\* DeleteACLs once per key of the map, a call inside the user manager once in
\* its CreateUser / DeleteUser / CreateACLs / DeleteACLs, and the ACL call
\* once per builder.
NoRepeat ==
  /\ \A op \in {"NewKafkaClient", "DescribeCluster", "CreateTopic", "ListTopics",
                "DescribeTopicConfigs", "AlterTopicConfigs", "DeleteTopics",
                "fixedDelay"} : Count(op) <= 1
  /\ Count("CreateUser") <=
       IF IsCreate THEN Len(New(req).Users)
       ELSE IF IsUpdate THEN Len(UDiff(req).AddedUsers) ELSE 0
  /\ Count("DeleteUser") <=
       IF IsDelete THEN Len(New(req).Users)
       ELSE IF IsUpdate THEN Len(UDiff(req).DeletedUsers) ELSE 0
  /\ Count("CreateACLs") <=
       IF IsUpdate THEN Cardinality(DOMAIN UDiff(req).AddedPermissions) ELSE 0
  /\ Count("DeleteACLs") <=
       IF IsUpdate THEN Cardinality(DOMAIN UDiff(req).DeletedPermissions) ELSE 0
  /\ \A i, j \in 1..Len(calls) :
       (i < j /\ calls[i][1] = calls[j][1] /\ SameSeg(i, j) /\ Inside(i))
         => calls[i][1] \in PerBuilder
  /\ \A s \in Starts, op \in PerBuilder :
       Cardinality({i \in CallIdx(op) : s < i /\ SameSeg(s, i)}) <= MostBuilders

\* C26: in Create no CreateUser is issued after CreateTopic failed or after a
\* CreateUser failed; in Update neither the delay nor CreateUser, CreateACLs
\* or DeleteACLs is issued after a DeleteUser failed; in Delete no DeleteUser
\* is issued after a DeleteUser failed; and no call is issued twice for one
\* step of an invocation.
C26_FirstError ==
  /\ (IsCreate /\ last.pc = "CreateTopic" /\ last.o.k # "ok") =>
       (Done /\ res # "" /\ Count("CreateUser") = 0)
  /\ IsCreate => \A i \in ReturnedError("CreateUser") : "CreateUser" \notin After(i)
  /\ IsUpdate =>
       \A i \in ReturnedError("DeleteUser") :
         After(i) \cap {"fixedDelay", "CreateUser", "CreateACLs", "DeleteACLs"} = {}
  /\ IsDelete => \A i \in ReturnedError("DeleteUser") : "DeleteUser" \notin After(i)
  /\ \A i \in 1..Len(calls) :
       (calls[i][2] = "error" /\ i \in UNION {CallIdx(op \o ".return") : op \in ManagerOps})
         => (i = Len(calls) /\ Done /\ res # "")
  /\ NoRepeat

\* An Update returned the error of its first DeleteUser, with a user to delete
\* and a user to add left.
C26_Witness ==
  /\ IsUpdate /\ Done /\ res # ""
  /\ ReturnedError("DeleteUser") # {}
  /\ Count("DeleteUser") = 1 /\ Len(UDiff(req).DeletedUsers) = 2
  /\ Count("fixedDelay") = 0

\* The user CreateUser / DeleteUser is working on: its canonical name and its
\* association.
TheUser == Username(M, req)
TheAssociation == <<ClientCluster(req), TheUser>>

\* CreateUser / DeleteUser returned the error of the call that just returned.
UserFailed(op) ==
  /\ pc' = "done" /\ res' = op \o " failed"
  /\ calls'[Len(calls')] = <<op \o ".return", "error">>

\* C27: when CreateSecret reports that the secret exists, CreateUser goes on
\* with DescribeSecret and, when that returns the secret, with the steps after
\* the secret; when the association reports that the secret is associated
\* already, CreateUser goes on with the ACLs; every other outcome of
\* CreateSecret or of the association but success makes CreateUser return an
\* error; and CreateUser returns success only with the secret, the association
\* and the ACLs of the user in place.
C27_Step ==
  /\ (pc = "CreateSecret" /\ last'.o.k = "ok" /\ TheUser \in DOMAIN secrets) =>
       /\ pc' = "CreateDescribeSecret"
       /\ secrets' = secrets
  /\ (pc = "CreateDescribeSecret" /\ last'.o.k = "ok") =>
       pc' = IF Arn(M, req) # "" THEN "PutResourcePolicy" ELSE "CreateFixedDelay"
  /\ (pc = "Associate" /\ last'.o.k = "ok" /\ TheAssociation \in assoc) =>
       (pc' = "CreateACLs" /\ assoc' = assoc)
  /\ (pc \in {"CreateSecret", "CreateDescribeSecret", "Associate"} /\ last'.o.k # "ok") =>
       UserFailed("CreateUser")
  /\ (pc = "CreateACLs" /\ InUserLoop(M)
        /\ calls'[Len(calls')] = <<"CreateUser.return", "ok">>) =>
       /\ TheUser \in DOMAIN secrets'
       /\ TheAssociation \in assoc'
       /\ ACLsOf(ClientCluster(req), TopicName(req), TheUser, Permissions(M, req))
            \subseteq acls'

C27_AbsorbsDuplicates == [][C27_Step]_vars

\* A Create succeeded for a user whose secret and association were there when
\* the invocation started: DescribeSecret found the secret.
C27_Witness ==
  /\ IsCreate /\ Done /\ res = "" /\ Len(New(req).Users) = 1
  /\ Count("DescribeSecret") = 1 /\ Count("BatchAssociateScramSecret") = 1
  /\ \E n \in DOMAIN start.secrets : <<ClientCluster(req), n>> \in start.assoc
  /\ ReturnedOk("CreateUser") # {}

\* The users CreateUser is called for, in the order of the calls, and the
\* positions of the calls of op inside the user manager call at position s.
CreatedUsers == IF IsCreate THEN New(req).Users ELSE UDiff(req).AddedUsers
UserAt(s) == CreatedUsers[Cardinality({t \in CallIdx("CreateUser") : t <= s})]
In(s, op) == {i \in CallIdx(op) : s < i /\ SameSeg(s, i)}
Before(X, Y) == \A x \in X, y \in Y : x < y

\* C28: in every CreateUser the association comes after CreateSecret and after
\* exactly one delay, and is issued with the secret in place; for a user with
\* an Arn PutResourcePolicy and then CreateGrant come before the delay, for a
\* user without one neither is issued; the ACL calls come after the
\* association, are issued with the association in place, and nothing but ACL
\* calls follows them in CreateUser.
C28_CreateUserOrder ==
  /\ pc \in {"CreateFixedDelay", "Associate"} => TheUser \in DOMAIN secrets
  /\ (pc = "CreateACLs" /\ InUserLoop(M)) => TheAssociation \in assoc
  /\ \A s \in CallIdx("CreateUser") :
       LET sec == In(s, "CreateSecret")
           prp == In(s, "PutResourcePolicy")
           cg == In(s, "CreateGrant")
           dl == In(s, "um.fixedDelay")
           as == In(s, "BatchAssociateScramSecret")
           ac == In(s, "kafka.CreateACLs")
       IN /\ as # {} => (Cardinality(dl) = 1 /\ sec # {})
          /\ Before(sec, dl) /\ Before(dl, as)
          /\ IF UserAt(s).Arn # ""
               THEN /\ dl # {} => (prp # {} /\ cg # {})
                    /\ Before(prp, cg) /\ Before(cg, dl) /\ Before(sec, prp)
               ELSE prp = {} /\ cg = {}
          /\ ac # {} => as # {}
          /\ Before(as, ac)
          /\ \A c \in ac : \A j \in (c + 1)..Len(calls) :
               SameSeg(s, j) => calls[j][1] \in {"kafka.CreateACLs", "CreateUser.return"}

\* A Create succeeded for alice, who has an Arn, and bob, who has none.
C28_Witness ==
  /\ IsCreate /\ Done /\ res = "" /\ Len(New(req).Users) = 2
  /\ Count("CreateUser") = 2
  /\ Count("PutResourcePolicy") = 1 /\ Count("CreateGrant") = 1
  /\ Count("um.fixedDelay") = 2 /\ Count("BatchAssociateScramSecret") = 2

\* C29: in every reachable state a user whose secret does not exist has no
\* cluster association and no key-management grant.
C29_AsStated ==
  /\ \A a \in assoc : HasSecret(a[2])
  /\ \A g \in grants : HasSecret(g.Name)

\* The steps of DeleteUser after the secret was found, and the step that
\* follows each when DeleteUser carries on.
DeleteSteps == {"Disassociate", "DeleteCreateGrant", "RevokeGrant", "DeleteSecret"}
GoesOn ==
  CASE pc = "Disassociate" ->
         pc' = IF Arn(M, req) # "" THEN "DeleteCreateGrant" ELSE "DeleteSecret"
    [] pc \in {"DeleteCreateGrant", "RevokeGrant"} -> pc' = "DeleteSecret"
    [] pc = "DeleteSecret" -> calls'[Len(calls) + 2] = <<"DeleteUser.return", "ok">>

\* C30: in DeleteUser a retriable error of the disassociation, CreateGrant,
\* RevokeGrant or DeleteSecret makes DeleteUser return an error at once, with
\* no later call and the secret still there; an error with a status below 500
\* and a disassociation of a secret that is not associated let DeleteUser go
\* on to the next step; any other unprocessed disassociation makes DeleteUser
\* return an error with the secret still there.
C30_Step ==
  /\ (pc \in DeleteSteps /\ last'.o.k = "err" /\ isRetriable(last'.o.status)) =>
       /\ UserFailed("DeleteUser")
       /\ Len(calls') = Len(calls) + 2
       /\ secrets' = secrets /\ TheUser \in DOMAIN secrets'
  /\ (pc \in DeleteSteps /\ last'.o.k = "err" /\ ~isRetriable(last'.o.status)) =>
       GoesOn
  /\ (pc = "Disassociate" /\ last'.o.k = "ok" /\ TheAssociation \notin assoc) =>
       (GoesOn /\ assoc' = assoc)
  /\ (pc = "Disassociate" /\ last'.o.k = "unprocessed") =>
       /\ UserFailed("DeleteUser")
       /\ Len(calls') = Len(calls) + 2
       /\ secrets' = secrets /\ TheUser \in DOMAIN secrets'
C30_ErrorClasses == [][C30_Step]_vars

\* A Delete reported success although the disassociation of its user failed
\* with a non-retriable error: the secret is gone, the association is not.
C30_Witness ==
  /\ IsDelete /\ Done /\ res = "" /\ Len(New(req).Users) = 1
  /\ Count("BatchDisassociateScramSecret") = 1 /\ Count("DeleteSecret") = 1
  /\ ReturnedOk("DeleteUser") # {}
  /\ \E n \in DOMAIN start.secrets :
       <<ClientCluster(req), n>> \in assoc /\ n \notin DOMAIN secrets

\* What the builders stand for: resource type, resource name and operation.
Grants(bs) ==
  UNION {{<<bs[i].rtype, bs[i].rname, o>> : o \in Range(bs[i].ops)} : i \in 1..Len(bs)}

\* C31: the ACLs of a permission list are topic READ, group "*" READ and group
\* "*" DESCRIBE when READ is in it and topic WRITE when WRITE is in it; without
\* READ there is no group builder; every builder has the literal pattern, the
\* canonical username as principal and the host "*"; CreateACLs and
\* DeleteACLs use the same builders.
C31_PermissionToACL ==
  fn = "userPermissionToACL" =>
    LET ps == Range(input.permissions)
        bs == output.create
    IN /\ output.delete = bs
       /\ Grants(bs) =
            (IF PermissionRead \in ps
               THEN {<<"TOPIC", input.topic, "READ">>, <<"GROUP", "*", "READ">>,
                     <<"GROUP", "*", "DESCRIBE">>}
               ELSE {}) \cup
            (IF PermissionWrite \in ps THEN {<<"TOPIC", input.topic, "WRITE">>} ELSE {})
       /\ PermissionRead \notin ps => \A i \in 1..Len(bs) : bs[i].rtype # "GROUP"
       /\ \A i \in 1..Len(bs) :
            /\ bs[i].pattern = "LITERAL"
            /\ bs[i].host = "*"
            /\ bs[i].principal =
                 <<"User", canonicalUsername(input.username, shortStackID(input.stack))>>

\* The mapping was applied to a list with READ and WRITE.
C31_Witness ==
  /\ fn = "userPermissionToACL"
  /\ Range(input.permissions) = {PermissionRead, PermissionWrite}
  /\ Len(output.create) = 2

\* C32: an Update calls AlterTopicConfigs at most once, only when diffConfig
\* of the topic's config at that time is not empty, and before every call of
\* the user manager; when DescribeTopicConfigs or AlterTopicConfigs fails the
\* Update ends with an error, without a call of the user manager and with the
\* users' secrets, associations, grants and ACLs as they were.
C32_AlterConfigs ==
  IsUpdate =>
    /\ Count("AlterTopicConfigs") <= 1
    /\ Count("AlterTopicConfigs") = 1 =>
         /\ TopicKey \in DOMAIN start.topics
         /\ diffConfigOps(start.topics[TopicKey].Config, New(req).Config,
                          Old(req).Config) # {}
    /\ \A i \in CallIdx("AlterTopicConfigs"), s \in Starts : i < s
    /\ (last.pc \in {"DescribeTopicConfigs", "AlterTopicConfigs"} /\ last.o.k # "ok") =>
         /\ Done /\ res # ""
         /\ Starts = {}
         /\ secrets = start.secrets /\ assoc = start.assoc
         /\ grants = start.grants /\ acls = start.acls

\* An Update altered the config, then changed users, and succeeded.
C32_Witness ==
  /\ IsUpdate /\ Done /\ res = ""
  /\ Count("AlterTopicConfigs") = 1
  /\ Count("DeleteUser") = 1 /\ Count("CreateUser") = 1

\* C33: an Update delivered a second time, with the same old and new
\* properties, after a first one that reported success, returns success and
\* leaves the secrets, the associations, the ACLs and the topics as the first
\* left them.
C33_AsStated ==
  (IsUpdate /\ Done /\ Redelivered /\ NoFaultNow) =>
    /\ res = ""
    /\ DOMAIN secrets = DOMAIN start.secrets
    /\ assoc = start.assoc
    /\ acls = start.acls
    /\ topics = start.topics

\* C34: while an Update runs DeleteUser for a removed user that has an Arn,
\* the key id DeleteUser was given is the value of the TR-KMS-KEY tag of the
\* cluster.
C34_AsStated ==
  (/\ IsUpdate /\ phase = "update.deleted"
   /\ pc \in {"DeleteACLs", "DeleteDescribeSecret"} \cup DeleteSteps
   /\ Arn(M, req) # ""
   /\ TagKmsKey \in DOMAIN ClusterTags(ClientCluster(req))) =>
    kmsKeyID = ClusterTags(ClientCluster(req))[TagKmsKey]

\* C35: when resource a is deleted, or updated to have no user, while resource
\* b of the same stack still declares the same Username, the secret and the
\* cluster association of that user stay in place.
C35_AsStated ==
  (req \in {SharedEvents.DeleteA, SharedEvents.UpdateA} /\ Done /\ res = "") =>
    LET n == canonicalUsername("alice", shortStackID("stack-1"))
    IN /\ n \in DOMAIN secrets
       /\ <<"cluster-1", n>> \in assoc

\* C36: in deleteACLs a DeleteACLs call that fails with an error that is not
\* retriable, while a further ACL builder is left, is followed by the
\* DeleteACLs call for the next builder.
C36_Step ==
  (/\ pc = "DeleteACLs" /\ ai < Len(Builders(M, req))
   /\ last'.o.k \in {"err", "reserr"} /\ ~kerrIsRetriable(last'.o)) =>
    (pc' = "DeleteACLs" /\ ai' = ai + 1)
C36_AsStated == [][C36_Step]_vars

\* The request cannot be dispatched: its type is unknown or NewTopicInfo
\* rejects its properties or, in an Update, its old properties.
NotDispatched ==
  \/ req.RequestType \notin RequestTypes
  \/ req.RequestType \in RequestTypes /\ req.new.err # {}
  \/ IsUpdate /\ req.old.err # {}

\* C37: a request that cannot be dispatched ends with an error, without a
\* cluster client, without any call and with the backends as they were.
C37_NoCallWhenNotDispatched ==
  (req # NoEvent /\ NotDispatched) =>
    /\ Done /\ res # ""
    /\ calls = <<>>
    /\ Now = start

\* A request of an unknown type arrived for a resource that exists.
C37_Witness ==
  /\ Done /\ req.RequestType \notin RequestTypes
  /\ start.secrets # NoSecrets /\ start.topics # NoTopics

\* The steps of CreateUser.
CreateSteps ==
  {"CreateSecret", "CreateDescribeSecret", "PutResourcePolicy", "CreateGrant",
   "CreateFixedDelay", "Associate", "CreateACLs"}

\* C38: no step of CreateUser for a user whose secret exists changes the
\* password or the key of that secret, whatever password was generated, and
\* the association that CreateUser makes is that of the existing secret.
C38_Step ==
  (pc \in CreateSteps /\ InUserLoop(M) /\ TheUser \in DOMAIN secrets) =>
    /\ TheUser \in DOMAIN secrets'
    /\ secrets'[TheUser].password = secrets[TheUser].password
    /\ secrets'[TheUser].KmsKeyId = secrets[TheUser].KmsKeyId
    /\ (pc = "Associate" /\ last'.o.k = "ok") => TheAssociation \in assoc'
C38_KeepsCredential == [][C38_Step]_vars

\* CreateSecret found the secret of the user, with a password other than the
\* one CreateUser had generated.
C38_Witness ==
  /\ IsCreate /\ pc = "CreateDescribeSecret" /\ last.pc = "CreateSecret"
  /\ TheUser \in DOMAIN secrets
  /\ last.o.pick \in Passwords
  /\ last.o.pick # secrets[TheUser].password

====
